---- MODULE Spec2Model ----
(***************************************************************************)
(* Sleep Quality Engine of the fatigue tool (core/sleep_quality.py).       *)
(*                                                                         *)
(* calculate_sleep_quality is a pure function of one sleep window and its  *)
(* context.  The specification draws the arguments of one call from        *)
(* bounded sets (Init) and applies the function (CalculateSleepQuality).   *)
(*                                                                         *)
(* Representation of the code's numbers:                                   *)
(*   - datetimes are whole minutes on a UTC time line; a timezone is its   *)
(*     UTC offset in minutes (no daylight-saving jumps), so astimezone()   *)
(*     adds the offset and .hour + .minute/60 is the minute of the local   *)
(*     day;                                                                *)
(*   - durations in hours (total_hours, actual_duration, hours_until_duty, *)
(*     hours_since_duty, wocl overlap) are kept in whole minutes;          *)
(*   - efficiency factors are fixed-point with six decimals (1.0 is        *)
(*     1000000), a product being rounded down after every multiplication;  *)
(*   - sleep onset latency and effective sleep are in thousandths of a     *)
(*     minute (5 h of effective sleep is 300000);                          *)
(*   - None is the empty sequence << >>, a present value v is << v >>;     *)
(*   - the WOCL overlap, which the code computes by subtracting doubles    *)
(*     hour + minute/60.0, is a record: its exact length in minutes and    *)
(*     the sign of the double's rounding error where the exact length is   *)
(*     one of the values the code compares it with (1 h, 2 h, 2.5 h) and   *)
(*     the error decides that comparison; 0 elsewhere.                     *)
(***************************************************************************)
EXTENDS Integers, Sequences, FiniteSets, TLC

(* one call: its arguments, its return value (or HTTP response) and the    *)
(* caller's position                                                       *)
VARIABLES args, result, pc

(* the API server: the module-level analysis_store of api_server.py, the   *)
(* rosters and analyses tables, and whether a database is configured       *)
VARIABLES analysis_store, db_rosters, db_analyses, db_available

(* the aggregate_metrics table of the peer-comparison metrics              *)
VARIABLES aggregate_metrics

(* authentication: the users and refresh_tokens tables, the tokens handed  *)
(* out to clients so far, and the wall clock in seconds since the server   *)
(* was set up                                                              *)
VARIABLES users, refresh_tokens, issued, now

(* for the claims: the refresh tokens a refresh has succeeded with, and    *)
(* those a logout has revoked                                              *)
VARIABLES rotated, logged_out

(* the refresh requests being processed: for each request its position in  *)
(* the handler and the handler's local variables                           *)
VARIABLES inflight

(* the simulation engine: homeostatic pressure S of the physiological      *)
(* state, the periods walked so far and the pinch events detected          *)
VARIABLES S, timeline, pinch_events

store_vars == << analysis_store, db_rosters, db_analyses, db_available, aggregate_metrics >>

engine_vars == << S, timeline, pinch_events >>

auth_vars == << users, refresh_tokens, issued, now, rotated, logged_out, inflight >>

vars == << args, result, pc, store_vars, auth_vars, engine_vars >>

(* a process without a database that has served no request *)
NoStore ==
    /\ analysis_store = {}
    /\ db_rosters = {}
    /\ db_analyses = {}
    /\ db_available = FALSE
    /\ aggregate_metrics = {}

NoAuth ==
    /\ users = << >>
    /\ refresh_tokens = << >>
    /\ issued = {}
    /\ now = 0
    /\ rotated = {}
    /\ logged_out = {}
    /\ inflight = << >>

NoEngine ==
    /\ S = 0
    /\ timeline = << >>
    /\ pinch_events = << >>

-----------------------------------------------------------------------------
(* Arithmetic helpers *)

Min(a, b) == IF a < b THEN a ELSE b

Max(a, b) == IF a > b THEN a ELSE b

Abs(a) == IF a < 0 THEN -a ELSE a

One == 1000 * 1000

(* floor(a * b / 10^6) of two non-negative fixed-point numbers, without an  *)
(* intermediate beyond 32 bits (a, b < 4 * 10^7).                          *)
Mul6(a, b) ==
    LET ah == a \div 1000
        al == a % 1000
        bh == b \div 1000
        bl == b % 1000
    IN  ah * bh + ((ah * bl + al * bh) + ((al * bl) \div 1000)) \div 1000

(* 10^6 * cos(2*pi*i/1440) for i = 0..360, rounded to nearest: math.cos on *)
(* the first quarter of a day-long period, one entry per minute.           *)
CosQuarter ==
    <<
       1000000, 999990, 999962, 999914, 999848, 999762, 999657, 999534, 999391, 999229,
       999048, 998848, 998630, 998392, 998135, 997859, 997564, 997250, 996917, 996566,
       996195, 995805, 995396, 994969, 994522, 994056, 993572, 993068, 992546, 992005,
       991445, 990866, 990268, 989651, 989016, 988362, 987688, 986996, 986286, 985556,
       984808, 984041, 983255, 982450, 981627, 980785, 979925, 979045, 978148, 977231,
       976296, 975342, 974370, 973379, 972370, 971342, 970296, 969231, 968148, 967046,
       965926, 964787, 963630, 962455, 961262, 960050, 958820, 957571, 956305, 955020,
       953717, 952396, 951057, 949699, 948324, 946930, 945519, 944089, 942641, 941176,
       939693, 938191, 936672, 935135, 933580, 932008, 930418, 928810, 927184, 925541,
       923880, 922201, 920505, 918791, 917060, 915311, 913545, 911762, 909961, 908143,
       906308, 904455, 902585, 900698, 898794, 896873, 894934, 892979, 891007, 889017,
       887011, 884988, 882948, 880891, 878817, 876727, 874620, 872496, 870356, 868199,
       866025, 863836, 861629, 859406, 857167, 854912, 852640, 850352, 848048, 845728,
       843391, 841039, 838671, 836286, 833886, 831470, 829038, 826590, 824126, 821647,
       819152, 816642, 814116, 811574, 809017, 806445, 803857, 801254, 798636, 796002,
       793353, 790690, 788011, 785317, 782608, 779884, 777146, 774393, 771625, 768842,
       766044, 763232, 760406, 757565, 754710, 751840, 748956, 746057, 743145, 740218,
       737277, 734323, 731354, 728371, 725374, 722364, 719340, 716302, 713250, 710185,
       707107, 704015, 700909, 697790, 694658, 691513, 688355, 685183, 681998, 678801,
       675590, 672367, 669131, 665882, 662620, 659346, 656059, 652760, 649448, 646124,
       642788, 639439, 636078, 632705, 629320, 625923, 622515, 619094, 615661, 612217,
       608761, 605294, 601815, 598325, 594823, 591310, 587785, 584250, 580703, 577145,
       573576, 569997, 566406, 562805, 559193, 555570, 551937, 548293, 544639, 540974,
       537300, 533615, 529919, 526214, 522499, 518773, 515038, 511293, 507538, 503774,
       500000, 496217, 492424, 488621, 484810, 480989, 477159, 473320, 469472, 465615,
       461749, 457874, 453990, 450098, 446198, 442289, 438371, 434445, 430511, 426569,
       422618, 418660, 414693, 410719, 406737, 402747, 398749, 394744, 390731, 386711,
       382683, 378649, 374607, 370557, 366501, 362438, 358368, 354291, 350207, 346117,
       342020, 337917, 333807, 329691, 325568, 321439, 317305, 313164, 309017, 304864,
       300706, 296542, 292372, 288196, 284015, 279829, 275637, 271440, 267238, 263031,
       258819, 254602, 250380, 246153, 241922, 237686, 233445, 229200, 224951, 220697,
       216440, 212178, 207912, 203642, 199368, 195090, 190809, 186524, 182236, 177944,
       173648, 169350, 165048, 160743, 156434, 152123, 147809, 143493, 139173, 134851,
       130526, 126199, 121869, 117537, 113203, 108867, 104528, 100188, 95846, 91502,
       87156, 82808, 78459, 74108, 69756, 65403, 61049, 56693, 52336, 47978,
       43619, 39260, 34899, 30539, 26177, 21815, 17452, 13090, 8727, 4363,
       0
    >>

(* 10^6 * cos(2*pi*i/1440) for any minute i >= 0 (math.cos, line 346).      *)
cos6(i) ==
    LET j == i % 1440
    IN  IF j <= 360 THEN CosQuarter[j + 1]
        ELSE IF j <= 720 THEN -CosQuarter[(720 - j) + 1]
        ELSE IF j <= 1080 THEN -CosQuarter[(j - 720) + 1]
        ELSE CosQuarter[(1440 - j) + 1]

-----------------------------------------------------------------------------
(* Parameters: SleepQualityParameters defaults and engine constants *)

WOCL_START == 2 * 60

WOCL_END == (5 + 1) * 60

MAX_REALISTIC_SLEEP == 10 * 60

LOCATION_EFFICIENCY(location) ==
    CASE location = "home" -> 950000
      [] location = "hotel" -> 880000
      [] location = "crew_rest" -> 700000
      [] location = "airport_hotel" -> 850000
      [] location = "crew_house" -> 900000
      [] OTHER -> 850000

sol_base_minutes == 15

sol_wmz_amplitude == 800000

nap_efficiency_under_10 == 750000

nap_efficiency_10_20 == 900000

nap_efficiency_20_30 == 920000

nap_efficiency_30_60 == 880000

nap_efficiency_over_60 == 850000

first_night_sol_extra_minutes == 12000

second_night_sol_extra_minutes == 5000

split_efficiency_4h_plus == 920000

split_efficiency_3h_plus == 850000

split_efficiency_under_3h == 780000

early_report_hour == 6 * 60

alarm_anxiety_penalty == 970000

-----------------------------------------------------------------------------
(* Time zones: datetime.astimezone and the fields read from its result *)

astimezone(t, tz) == t + tz

(* .hour + .minute / 60.0 of a local datetime, in minutes of the local day *)
hour_of(local) == local % 1440

(* .date() of a local datetime, as a day number *)
date_of(local) == local \div 1440

-----------------------------------------------------------------------------
(* SleepQualityEngine *)

(* faulty variant: band edges compared with < instead of <= *)
nap_efficiency_strict_edges(nap_minutes) ==
    IF nap_minutes < 10
    THEN [modifier |-> nap_efficiency_under_10, band |-> "<=10 min (light)"]
    ELSE IF nap_minutes < 20
    THEN [modifier |-> nap_efficiency_10_20, band |-> "10-20 min (optimal)"]
    ELSE IF nap_minutes < 30
    THEN [modifier |-> nap_efficiency_20_30, band |-> "20-30 min (SWS entry)"]
    ELSE IF nap_minutes < 60
    THEN [modifier |-> nap_efficiency_30_60, band |-> "30-60 min (inertia risk)"]
    ELSE [modifier |-> nap_efficiency_over_60, band |-> ">60 min (full cycle)"]

(* faulty variant: the 10-20 and 20-30 minute values exchanged *)
nap_efficiency_swapped_peak(nap_minutes) ==
    IF nap_minutes <= 10
    THEN [modifier |-> nap_efficiency_under_10, band |-> "<=10 min (light)"]
    ELSE IF nap_minutes <= 20
    THEN [modifier |-> nap_efficiency_20_30, band |-> "10-20 min (optimal)"]
    ELSE IF nap_minutes <= 30
    THEN [modifier |-> nap_efficiency_10_20, band |-> "20-30 min (SWS entry)"]
    ELSE IF nap_minutes <= 60
    THEN [modifier |-> nap_efficiency_30_60, band |-> "30-60 min (inertia risk)"]
    ELSE [modifier |-> nap_efficiency_over_60, band |-> ">60 min (full cycle)"]

(* 7a. nap efficiency by duration; nap_minutes = total_hours * 60 *)
nap_efficiency(nap_minutes) ==
    IF nap_minutes <= 10
    THEN [modifier |-> nap_efficiency_under_10, band |-> "<=10 min (light)"]
    ELSE IF nap_minutes <= 20
    THEN [modifier |-> nap_efficiency_10_20, band |-> "10-20 min (optimal)"]
    ELSE IF nap_minutes <= 30
    THEN [modifier |-> nap_efficiency_20_30, band |-> "20-30 min (SWS entry)"]
    ELSE IF nap_minutes <= 60
    THEN [modifier |-> nap_efficiency_30_60, band |-> "30-60 min (inertia risk)"]
    ELSE [modifier |-> nap_efficiency_over_60, band |-> ">60 min (full cycle)"]

(* Start minutes (biological local time) of the windows whose overlap, in  *)
(* IEEE doubles, misses the exact value: a window inside the WOCL on one    *)
(* day gives sleep_end_hour - sleep_start_hour (lines 397-399), a window    *)
(* over midnight (6.0 - sleep_start_hour) + (sleep_end_hour - 2.0) (lines   *)
(* 385-394).  Under60/Under120: exact overlap 60/120 min, double just below *)
(* 1.0/2.0 (02:07-04:07 gives 1.9999999999999996).  Over150: exact overlap  *)
(* 150 min, double just above 2.5.                                         *)
WholeUnder60 ==
    {
      184, 185, 186, 187, 200, 201, 202, 215, 216, 218, 230, 231, 233
    }

WholeUnder120 ==
    {
      124, 125, 126, 127, 140, 141, 142, 155, 156, 158, 170, 171, 173, 184,
      185, 186, 187, 200, 201, 202, 215, 216, 218, 230, 231, 233
    }

WholeOver150 ==
    {
      127, 129, 130, 131, 142, 144, 145, 158, 159, 160, 173, 174, 175, 187,
      189, 190, 191, 202, 204, 205
    }

SplitUnder60 ==
    {
      308, 309, 310, 311, 323, 324, 325, 337, 339, 340, 352, 354, 355
    }

SplitUnder120 ==
    {
      248, 249, 250, 251, 263, 264, 265, 277, 279, 280, 292, 294, 295, 308,
      309, 310, 311, 323, 324, 325, 337, 339, 340, 352, 354, 355
    }

SplitOver150 ==
    {
      214, 245, 246, 247, 260, 261, 262, 274, 275, 276, 278, 290, 291, 293,
      305, 306, 307, 320, 321, 322, 338, 353
    }

(* sign of (double computed by the code - exact overlap) *)
overlap_rounding(sleep_start_hour, minutes, over_midnight) ==
    IF over_midnight
    THEN IF minutes = 60 /\ sleep_start_hour \in SplitUnder60 THEN -1
         ELSE IF minutes = 120 /\ sleep_start_hour \in SplitUnder120 THEN -1
         ELSE IF minutes = 150 /\ sleep_start_hour \in SplitOver150 THEN 1
         ELSE 0
    ELSE IF minutes = 60 /\ sleep_start_hour \in WholeUnder60 THEN -1
         ELSE IF minutes = 120 /\ sleep_start_hour \in WholeUnder120 THEN -1
         ELSE IF minutes = 150 /\ sleep_start_hour \in WholeOver150 THEN 1
         ELSE 0

(* overlap >= t and overlap > t on the double, t in minutes *)
overlap_ge(overlap, t) ==
    overlap.minutes > t \/ (overlap.minutes = t /\ overlap.rounding >= 0)

overlap_gt(overlap, t) ==
    overlap.minutes > t \/ (overlap.minutes = t /\ overlap.rounding > 0)

(* Hours of sleep overlapping the WOCL (02:00-06:00) in the biological TZ *)
calculate_wocl_overlap(sleep_start, sleep_end, location_timezone, biological_timezone) ==
    LET wocl_tz == IF biological_timezone # << >>
                   THEN biological_timezone[1] ELSE location_timezone
        sleep_start_bio == astimezone(sleep_start, wocl_tz)
        sleep_end_bio == astimezone(sleep_end, wocl_tz)
        sleep_start_hour == hour_of(sleep_start_bio)
        sleep_end_hour == hour_of(sleep_end_bio)
        day1 == IF sleep_start_hour < WOCL_END
                THEN LET day1_overlap_start == Max(sleep_start_hour, WOCL_START)
                         day1_overlap_end == Min(1440, WOCL_END)
                     IN  IF day1_overlap_start < day1_overlap_end
                         THEN day1_overlap_end - day1_overlap_start ELSE 0
                ELSE 0
        day2 == IF sleep_end_hour > WOCL_START
                THEN LET day2_overlap_start == Max(0, WOCL_START)
                         day2_overlap_end == Min(sleep_end_hour, WOCL_END)
                     IN  IF day2_overlap_start < day2_overlap_end
                         THEN day2_overlap_end - day2_overlap_start ELSE 0
                ELSE 0
        over_midnight == \/ sleep_end_hour < sleep_start_hour
                         \/ date_of(sleep_end_bio) > date_of(sleep_start_bio)
        overlap_hours ==
            IF over_midnight
            THEN day1 + day2
            ELSE IF sleep_start_hour < WOCL_END /\ sleep_end_hour > WOCL_START
                 THEN Max(0, Min(sleep_end_hour, WOCL_END)
                                - Max(sleep_start_hour, WOCL_START))
                 ELSE 0
    IN  [ minutes |-> overlap_hours,
          rounding |-> overlap_rounding(sleep_start_hour, overlap_hours, over_midnight) ]

(* 4. circadian alignment factor: a bonus for WOCL-aligned sleep only *)
wocl_boost(wocl_overlap, actual_duration) ==
    IF overlap_ge(wocl_overlap, 120) /\ actual_duration > 30 THEN 1050000
    ELSE IF overlap_ge(wocl_overlap, 60) /\ actual_duration > 30 THEN 1020000
    ELSE 1000000

(* faulty variant: the wake maintenance zone penalty left out *)
late_onset_penalty_without_wmz(sleep_start_hour) ==
    IF sleep_start_hour >= 60 /\ sleep_start_hour < 240 THEN 930000
    ELSE IF sleep_start_hour >= 0 /\ sleep_start_hour < 60 THEN 970000
    ELSE 1000000

(* 5. late sleep onset penalty and wake maintenance zone penalty *)
late_onset_penalty(sleep_start_hour) ==
    LET late == IF sleep_start_hour >= 60 /\ sleep_start_hour < 240 THEN 930000
                ELSE IF sleep_start_hour >= 0 /\ sleep_start_hour < 60 THEN 970000
                ELSE 1000000
    IN  IF 17 * 60 <= sleep_start_hour /\ sleep_start_hour < 21 * 60
        THEN LET wmz_center == 19 * 60
                 wmz_distance == Abs(sleep_start_hour - wmz_center)
                 wmz_penalty == 930000 + (70000 * Min(120, wmz_distance)) \div 120
             IN  Min(late, wmz_penalty)
        ELSE late

(* 6. recovery sleep boost; hours_since_duty is None without a previous duty *)
hours_since_duty_of(sleep_start, previous_duty_end) ==
    IF previous_duty_end # << >>
    THEN << sleep_start - previous_duty_end[1] >>
    ELSE << >>

recovery_boost(hours_since_duty, is_nap) ==
    IF hours_since_duty # << >>
    THEN IF hours_since_duty[1] < 120 /\ ~is_nap THEN 1050000
         ELSE IF hours_since_duty[1] < 240 /\ ~is_nap THEN 1030000
         ELSE 1000000
    ELSE 1000000

(* faulty variant: band edges compared with <= instead of < *)
time_pressure_factor_inclusive(hours_until_duty) ==
    IF hours_until_duty <= 90 THEN 930000
    ELSE IF hours_until_duty <= 180 THEN 960000
    ELSE IF hours_until_duty <= 360 THEN 980000
    ELSE 1000000

(* 7. time pressure factor *)
time_pressure_factor(hours_until_duty) ==
    IF hours_until_duty < 90 THEN 930000
    ELSE IF hours_until_duty < 180 THEN 960000
    ELSE IF hours_until_duty < 360 THEN 980000
    ELSE 1000000

(* faulty variant: the latency not clamped to 5-60 minutes *)
calculate_sleep_onset_latency_unclamped(sleep_start_hour, sleep_duration, is_nap) ==
    LET cosine == cos6(sleep_start_hour + 1440 - 19 * 60)
        circadian_gate ==
            Max(200000, One + ((sol_wmz_amplitude \div 1000) * cosine) \div 1000)
        proxy480 == IF is_nap THEN 288
                    ELSE Max(144, Min(720, sleep_duration))
    IN  (circadian_gate * sol_base_minutes * 12) \div (25 * proxy480)

(* 8a. sleep onset latency, in thousandths of a minute *)
calculate_sleep_onset_latency(sleep_start_hour, sleep_duration, is_nap) ==
    LET wmz_peak == 19 * 60
        cosine == cos6(sleep_start_hour + 1440 - wmz_peak)
        gate == One + ((sol_wmz_amplitude \div 1000) * cosine) \div 1000
        circadian_gate == Max(200000, gate)
        (* sleep_pressure_proxy times 480: 0.6 for a nap, else the planned *)
        (* duration / 8 h held within [0.3, 1.5]                           *)
        proxy480 == IF is_nap THEN 288
                    ELSE Max(144, Min(720, sleep_duration))
        (* base * gate / proxy = gate * base * 480 / proxy480, in 1/1000 min *)
        sol == (circadian_gate * sol_base_minutes * 12) \div (25 * proxy480)
    IN  Max(5000, Min(60000, sol))

(* 8b. first-night effect *)
first_night_extra(is_first_layover_night, is_second_layover_night, is_nap) ==
    IF is_first_layover_night /\ ~is_nap THEN first_night_sol_extra_minutes
    ELSE IF is_second_layover_night /\ ~is_nap THEN second_night_sol_extra_minutes
    ELSE 0

(* 8c. anticipatory arousal *)
alarm_anxiety(next_report_hour) ==
    IF next_report_hour # << >> /\ next_report_hour[1] < early_report_hour
    THEN alarm_anxiety_penalty ELSE 1000000

(* 8d. split sleep quality differential *)
split_modifier(is_split_sleep, is_nap, split_block_min_hours) ==
    IF is_split_sleep /\ ~is_nap
    THEN IF split_block_min_hours >= 240 THEN split_efficiency_4h_plus
         ELSE IF split_block_min_hours >= 180 THEN split_efficiency_3h_plus
         ELSE split_efficiency_under_3h
    ELSE 1000000

(* faulty variant: the product returned without the clamp *)
clamp_efficiency_missing(combined) == combined

(* 9. combine all factors, clamped to [0.70, 1.0] *)
clamp_efficiency(combined) == Max(700000, Min(1000000, combined))

combined_efficiency(base, wocl, late, recovery, pressure, insufficient, alarm, split) ==
    clamp_efficiency(
        Mul6(Mul6(Mul6(Mul6(Mul6(Mul6(Mul6(base, wocl), late), recovery),
                            pressure), insufficient), alarm), split))

(* faulty variant: the latency in minutes subtracted from the duration in hours *)
effective_duration_minutes_from_hours(actual_duration, total_sol) ==
    Max(0, actual_duration * 1000 - total_sol * 60)

(* 10. effective sleep: SOL is subtracted from the time in bed *)
effective_duration_of(actual_duration, total_sol) ==
    Max(0, actual_duration * 1000 - total_sol)

effective_sleep_of(actual_duration, total_sol, efficiency) ==
    Mul6(effective_duration_of(actual_duration, total_sol), efficiency)

(* faulty variant: the three thresholds tested independently (if, not elif) *)
graduated_warning_not_exclusive(effective_sleep, is_nap) ==
    IF ~is_nap
    THEN (IF effective_sleep < 5 * 60000
          THEN << [severity |-> "critical", message |-> "Critically insufficient sleep"] >>
          ELSE << >>)
         \o (IF effective_sleep < 6 * 60000
             THEN << [severity |-> "high", message |-> "Insufficient sleep"] >>
             ELSE << >>)
         \o (IF effective_sleep < 7 * 60000
             THEN << [severity |-> "moderate", message |-> "Below optimal sleep"] >>
             ELSE << >>)
    ELSE << >>

(* 11. user-facing warnings, in the order they are appended *)
graduated_warning(effective_sleep, is_nap) ==
    IF ~is_nap
    THEN IF effective_sleep < 5 * 60000
         THEN << [severity |-> "critical", message |-> "Critically insufficient sleep"] >>
         ELSE IF effective_sleep < 6 * 60000
         THEN << [severity |-> "high", message |-> "Insufficient sleep"] >>
         ELSE IF effective_sleep < 7 * 60000
         THEN << [severity |-> "moderate", message |-> "Below optimal sleep"] >>
         ELSE << >>
    ELSE << >>

wocl_warning(wocl_overlap, effective_sleep) ==
    IF overlap_gt(wocl_overlap, 150) /\ effective_sleep < 6 * 60000
    THEN << [severity |-> "info", message |-> "sleep during WOCL may reduce quality"] >>
    ELSE << >>

(* "if hours_until_duty and ...": a float is falsy exactly when it is 0.0 *)
turnaround_warning(hours_until_duty, actual_duration) ==
    IF hours_until_duty # 0 /\ hours_until_duty < 120 /\ actual_duration < 300
    THEN << [severity |-> "critical",
             message |-> "Very short turnaround with minimal sleep"] >>
    ELSE << >>

generate_sleep_warnings(effective_sleep, actual_duration, wocl_overlap, hours_until_duty, is_nap) ==
    graduated_warning(effective_sleep, is_nap)
        \o wocl_warning(wocl_overlap, effective_sleep)
        \o turnaround_warning(hours_until_duty, actual_duration)

calculate_sleep_quality(a) ==
    LET total_hours == a.sleep_end - a.sleep_start
        actual_duration == IF ~a.is_nap
                           THEN Min(total_hours, MAX_REALISTIC_SLEEP)
                           ELSE total_hours
        nap == IF a.is_nap THEN nap_efficiency(total_hours)
               ELSE [modifier |-> 1000000, band |-> ""]
        base_efficiency == IF a.is_nap
                           THEN Mul6(LOCATION_EFFICIENCY(a.location), nap.modifier)
                           ELSE LOCATION_EFFICIENCY(a.location)
        wocl_overlap == calculate_wocl_overlap(a.sleep_start, a.sleep_end,
                            a.location_timezone, a.biological_timezone)
        boost == wocl_boost(wocl_overlap, actual_duration)
        bio_tz_for_onset == IF a.biological_timezone # << >>
                            THEN a.biological_timezone[1] ELSE a.location_timezone
        sleep_start_hour == hour_of(astimezone(a.sleep_start, bio_tz_for_onset))
        late == late_onset_penalty(sleep_start_hour)
        hours_since_duty == hours_since_duty_of(a.sleep_start, a.previous_duty_end)
        recovery == recovery_boost(hours_since_duty, a.is_nap)
        hours_until_duty == a.next_event - a.sleep_end
        pressure == time_pressure_factor(hours_until_duty)
        insufficient_penalty == 1000000
        sol_minutes == calculate_sleep_onset_latency(sleep_start_hour,
                                                     actual_duration, a.is_nap)
        extra == first_night_extra(a.is_first_layover_night,
                                   a.is_second_layover_night, a.is_nap)
        total_sol == sol_minutes + extra
        alarm == alarm_anxiety(a.next_report_hour)
        split == split_modifier(a.is_split_sleep, a.is_nap, a.split_block_min_hours)
        efficiency == combined_efficiency(base_efficiency, boost, late, recovery,
                          pressure, insufficient_penalty, alarm, split)
        effective_sleep_hours == effective_sleep_of(actual_duration, total_sol, efficiency)
    IN  [ total_sleep_hours |-> total_hours,
          actual_sleep_hours |-> actual_duration,
          effective_sleep_hours |-> effective_sleep_hours,
          sleep_efficiency |-> efficiency,
          base_efficiency |-> base_efficiency,
          wocl_penalty |-> boost,
          late_onset_penalty |-> late,
          recovery_boost |-> recovery,
          time_pressure_factor |-> pressure,
          insufficient_penalty |-> insufficient_penalty,
          sleep_onset_latency_minutes |-> total_sol,
          first_night_extra_minutes |-> extra,
          is_first_night |-> a.is_first_layover_night,
          is_second_night |-> a.is_second_layover_night,
          nap_efficiency_modifier |-> nap.modifier,
          nap_duration_band |-> nap.band,
          alarm_anxiety_factor |-> alarm,
          wocl_overlap_hours |-> wocl_overlap,
          sleep_start_hour |-> sleep_start_hour,
          hours_since_duty |-> hours_since_duty,
          hours_until_duty |-> hours_until_duty,
          warnings |-> generate_sleep_warnings(effective_sleep_hours, actual_duration,
                           wocl_overlap, hours_until_duty, a.is_nap) ]

-----------------------------------------------------------------------------
(* Bounded arguments of one call *)

(* sleep starts on a half-hour grid of one UTC day, slots 0..MaxStartSlot *)
MaxStartSlot == 47

(* window lengths on a half-hour grid, 1..MaxDurSlot slots (up to 12 h) *)
MaxDurSlot == 24

FirstDay == 24 * 60

GridStarts == { FirstDay + 30 * k : k \in 0..MaxStartSlot }

(* starts one minute off the hour bands of the onset penalties *)
OffGridStarts == { FirstDay + m : m \in {59, 127, 188, 239, 1019, 1141, 1259} }

GridDurations == { 30 * k : k \in 1..MaxDurSlot }

(* window lengths around the nap bands, in minutes *)
NapDurations == {5, 10, 11, 20, 21, 29, 31, 61, 95}

Locations == {"home", "hotel", "crew_rest", "airport_hotel", "crew_house", "apartment"}

(* location timezone and biological timezone (None: the location's) *)
Timezones == { [loc |-> 0, bio |-> << >>],
               [loc |-> 180, bio |-> << >>],
               [loc |-> 180, bio |-> << -300 >>] }

(* first / second layover night flags *)
Nights == { [first |-> FALSE, second |-> FALSE],
            [first |-> TRUE, second |-> FALSE],
            [first |-> FALSE, second |-> TRUE],
            [first |-> TRUE, second |-> TRUE] }

Call(start, dur, tz, location, nap, night, since, until, report, split) ==
    [ sleep_start |-> start,
      sleep_end |-> start + dur,
      location |-> location,
      previous_duty_end |-> IF since = << >> THEN << >> ELSE << start - since[1] >>,
      next_event |-> start + dur + until,
      is_nap |-> nap,
      location_timezone |-> tz.loc,
      biological_timezone |-> tz.bio,
      is_first_layover_night |-> night.first,
      is_second_layover_night |-> night.second,
      next_report_hour |-> report,
      is_split_sleep |-> split # << >>,
      split_block_min_hours |-> IF split = << >> THEN 0 ELSE split[1] ]

NoTz == [loc |-> 0, bio |-> << >>]

NoNight == [first |-> FALSE, second |-> FALSE]

(* every start, length and timezone, with and without the nap and night flags *)
TimingCall ==
    \E start \in GridStarts \cup OffGridStarts,
       dur \in GridDurations \cup NapDurations,
       tz \in Timezones, nap \in BOOLEAN, night \in Nights :
        args = Call(start, dur, tz, "hotel", nap, night, << >>, 480, << >>, << >>)

(* every length against the time left until the next event *)
TurnaroundCall ==
    \E start \in {FirstDay + 13 * 60, FirstDay + 23 * 60},
       dur \in GridDurations \cup NapDurations,
       nap \in BOOLEAN,
       until \in {0, 1, 60, 89, 90, 119, 120, 179, 180, 359, 360, 720} :
        args = Call(start, dur, NoTz, "home", nap, NoNight, << >>, until, << >>, << >>)

(* every combination of the multiplicative factors *)
FactorCall ==
    \E start \in {FirstDay + 30, FirstDay + 2 * 60, FirstDay + 13 * 60, FirstDay + 19 * 60},
       dur \in {20, 270, 480, 660},
       location \in Locations, nap \in BOOLEAN,
       since \in {<< >>, << 60 >>, << 180 >>, << 300 >>},
       until \in {60, 100, 200, 400},
       report \in {<< >>, << 330 >>, << 360 >>},
       split \in {<< >>, << 120 >>, << 180 >>, << 240 >>} :
        args = Call(start, dur, NoTz, location, nap, NoNight, since, until, report, split)

-----------------------------------------------------------------------------
(* One call of SleepQualityEngine.calculate_sleep_quality *)

Init ==
    /\ TimingCall \/ TurnaroundCall \/ FactorCall
    /\ result = << >>
    /\ pc = "call"
    /\ NoStore
    /\ NoAuth
    /\ NoEngine

CalculateSleepQuality ==
    /\ pc = "call"
    /\ result' = calculate_sleep_quality(args)
    /\ pc' = "returned"
    /\ UNCHANGED << args, store_vars, auth_vars, engine_vars >>

Next == CalculateSleepQuality

Spec == Init /\ [][Next]_vars

-----------------------------------------------------------------------------
(* Properties of calculate_sleep_quality *)

Returned == pc = "returned"

(* the window length end - start, in minutes *)
WindowMinutes == args.sleep_end - args.sleep_start

(* the sleep-onset minute of the day in the biological timezone *)
OnsetMinute ==
    (args.sleep_start + (IF args.biological_timezone # << >>
                         THEN args.biological_timezone[1]
                         ELSE args.location_timezone)) % 1440

(* the product of the factors before it is clamped *)
FactorProduct ==
    Mul6(Mul6(Mul6(Mul6(Mul6(result.base_efficiency, result.wocl_penalty),
                             result.late_onset_penalty), result.recovery_boost),
              result.time_pressure_factor), result.alarm_anxiety_factor)

C2_EffectiveSleep ==
    Returned =>
        LET D == IF args.is_nap THEN WindowMinutes ELSE Min(WindowMinutes, 10 * 60)
        IN  /\ result.effective_sleep_hours =
                 Mul6(Max(0, D * 1000 - result.sleep_onset_latency_minutes),
                      result.sleep_efficiency)
            /\ result.effective_sleep_hours >= 0

(* a nap shorter than its own onset latency: the floor at 0 acts *)
C2_Witness ==
    /\ Returned
    /\ WindowMinutes > 0
    /\ WindowMinutes * 1000 < result.sleep_onset_latency_minutes
    /\ result.effective_sleep_hours = 0

(* minutes of [sleep_start, sleep_end) inside 02:00-06:00 of the           *)
(* biological timezone, day by day                                         *)
TrueWoclOverlap ==
    LET off == IF args.biological_timezone # << >>
               THEN args.biological_timezone[1] ELSE args.location_timezone
        s == args.sleep_start + off
        e == args.sleep_end + off
        OnDay(d) == Max(0, Min(e, d * 1440 + 6 * 60) - Max(s, d * 1440 + 2 * 60))
        RECURSIVE Sum(_)
        Sum(d) == IF d > e \div 1440 THEN 0 ELSE OnDay(d) + Sum(d + 1)
    IN  Sum(s \div 1440)

(* C3: wocl_penalty is 1.05 when the window overlaps 02:00-06:00           *)
(* (biological timezone) by at least 2 h, 1.02 when by at least 1 h but    *)
(* under 2 h, 1.0 otherwise, and never below 1.0.                          *)
C3_WoclFactor ==
    Returned =>
        /\ result.wocl_penalty =
             IF TrueWoclOverlap >= 120 THEN 1050000
             ELSE IF TrueWoclOverlap >= 60 THEN 1020000
             ELSE 1000000
        /\ result.wocl_penalty >= 1000000

(* C4: a nap of m minutes has nap_efficiency_modifier 0.75 (m <= 10), 0.90 *)
(* (10 < m <= 20), 0.92 (20 < m <= 30), 0.88 (30 < m <= 60), 0.85 (m > 60) *)
(* and base_efficiency = location efficiency * modifier; a non-nap has     *)
(* modifier 1.0 and base_efficiency = location efficiency.                 *)
C4_NapBands ==
    Returned =>
        LET m == WindowMinutes
            banded == IF m <= 10 THEN 750000
                      ELSE IF m <= 20 THEN 900000
                      ELSE IF m <= 30 THEN 920000
                      ELSE IF m <= 60 THEN 880000
                      ELSE 850000
        IN  IF args.is_nap
            THEN /\ result.nap_efficiency_modifier = banded
                 /\ result.base_efficiency =
                      Mul6(LOCATION_EFFICIENCY(args.location), banded)
            ELSE /\ result.nap_efficiency_modifier = 1000000
                 /\ result.base_efficiency = LOCATION_EFFICIENCY(args.location)

(* a 20-minute nap in the crew rest: the upper edge of the 10-20 band *)
C4_Witness ==
    /\ Returned
    /\ args.is_nap
    /\ WindowMinutes = 20
    /\ args.location = "crew_rest"
    /\ result.nap_efficiency_modifier = 900000
    /\ result.base_efficiency = 630000

(* C5 as stated: the modifier peaks in the 10-20 minute band, no nap       *)
(* outside that band gets a modifier above the one of that band.           *)
C5_PeakIn10To20 ==
    Returned /\ args.is_nap /\ ~(10 < WindowMinutes /\ WindowMinutes <= 20) =>
        result.nap_efficiency_modifier <= nap_efficiency(15).modifier

(* C5 amended: the modifier is non-monotonic in the nap duration and peaks *)
(* in the 20-30 minute band (0.92); the 10-20 minute band (0.90) is the    *)
(* second highest.                                                         *)
C5_PeakIn20To30 ==
    Returned /\ args.is_nap =>
        LET m == WindowMinutes
            in20to30 == 20 < m /\ m <= 30
            in10to20 == 10 < m /\ m <= 20
        IN  /\ in20to30 => result.nap_efficiency_modifier = 920000
            /\ in10to20 => result.nap_efficiency_modifier = 900000
            /\ ~in20to30 /\ ~in10to20 => result.nap_efficiency_modifier < 900000
            /\ nap_efficiency(5).modifier < nap_efficiency(25).modifier
            /\ nap_efficiency(25).modifier > nap_efficiency(45).modifier

(* a 21-minute nap: above the modifier of the 10-20 band *)
C5_Witness ==
    /\ Returned
    /\ args.is_nap
    /\ WindowMinutes = 21
    /\ result.nap_efficiency_modifier > nap_efficiency(15).modifier

(* C6: late_onset_penalty depends only on the onset hour h (biological     *)
(* timezone): 0.97 on [0,1), 0.93 on [1,4), 0.93 + 0.07*min(1, |h-19|/2)   *)
(* on [17,21), 1.0 elsewhere; always within [0.93, 1.0].                   *)
C6_LateOnset ==
    Returned =>
        LET h == OnsetMinute
            expected == IF h < 60 THEN 970000
                        ELSE IF h < 4 * 60 THEN 930000
                        ELSE IF 17 * 60 <= h /\ h < 21 * 60
                        THEN 930000 + (70000 * Min(120, Abs(h - 19 * 60))) \div 120
                        ELSE 1000000
        IN  /\ result.late_onset_penalty = expected
            /\ 930000 <= result.late_onset_penalty
            /\ result.late_onset_penalty <= 1000000

(* onset at 19:00 body-clock time under a biological timezone that is not  *)
(* the location's: the strongest wake-maintenance-zone penalty             *)
C6_Witness ==
    /\ Returned
    /\ args.biological_timezone # << >>
    /\ args.biological_timezone[1] # args.location_timezone
    /\ OnsetMinute = 19 * 60
    /\ result.late_onset_penalty = 930000

(* C7: time_pressure_factor is 0.93 for u < 1.5 h, 0.96 for 1.5 <= u < 3,  *)
(* 0.98 for 3 <= u < 6 and 1.0 for u >= 6, u the time from sleep end to    *)
(* the next event; it is non-decreasing in u.                              *)
C7_TimePressure ==
    Returned =>
        LET u == args.next_event - args.sleep_end
        IN  /\ result.time_pressure_factor =
                 IF u < 90 THEN 930000
                 ELSE IF u < 180 THEN 960000
                 ELSE IF u < 360 THEN 980000
                 ELSE 1000000
            /\ \A v \in {0, 89, 90, 179, 180, 359, 360} :
                 /\ v <= u => time_pressure_factor(v) <= result.time_pressure_factor
                 /\ v >= u => time_pressure_factor(v) >= result.time_pressure_factor

(* the next event exactly 1.5 h after the sleep ends *)
C7_Witness ==
    /\ Returned
    /\ args.next_event - args.sleep_end = 90
    /\ result.time_pressure_factor = 960000

(* C8: the latency of _calculate_sleep_onset_latency is within [5, 60]     *)
(* minutes, and the reported latency is that value plus 12 min on a first  *)
(* layover night, plus 5 min on a second one, plus 0 otherwise; a nap      *)
(* never gets the extra.                                                   *)
C8_OnsetLatency ==
    Returned =>
        LET extra == IF args.is_nap THEN 0
                     ELSE IF args.is_first_layover_night THEN 12000
                     ELSE IF args.is_second_layover_night THEN 5000
                     ELSE 0
            sol == result.sleep_onset_latency_minutes - extra
        IN  /\ 5000 <= sol
            /\ sol <= 60000
            /\ sol = calculate_sleep_onset_latency(result.sleep_start_hour,
                         result.actual_sleep_hours, args.is_nap)
            /\ result.first_night_extra_minutes = extra

(* a first layover night whose latency is clamped at 60 minutes *)
C8_Witness ==
    /\ Returned
    /\ ~args.is_nap
    /\ args.is_first_layover_night
    /\ result.sleep_onset_latency_minutes = 72000

GraduatedMessages ==
    {"Critically insufficient sleep", "Insufficient sleep", "Below optimal sleep"}

IsGraduated(w) == w.message \in GraduatedMessages

(* C9: a non-nap gets exactly one graduated insufficient-sleep warning     *)
(* when effective sleep is under 7 h (critical under 5 h, high in [5,6),   *)
(* moderate in [6,7)) and none from 7 h; a nap never gets one.             *)
C9_GraduatedWarning ==
    Returned =>
        LET graduated == SelectSeq(result.warnings, IsGraduated)
            e == result.effective_sleep_hours
        IN  IF args.is_nap \/ e >= 7 * 60000
            THEN graduated = << >>
            ELSE /\ Len(graduated) = 1
                 /\ graduated[1].severity =
                      IF e < 5 * 60000 THEN "critical"
                      ELSE IF e < 6 * 60000 THEN "high"
                      ELSE "moderate"

(* a non-nap with effective sleep in [6 h, 7 h) *)
C9_Witness ==
    /\ Returned
    /\ ~args.is_nap
    /\ result.effective_sleep_hours >= 6 * 60000
    /\ result.effective_sleep_hours < 7 * 60000
    /\ \E i \in 1..Len(result.warnings) : result.warnings[i].severity = "moderate"

(* C10: the short-turnaround warning is generated whenever the time from   *)
(* sleep end to the next event is under 2 h and the actual sleep under     *)
(* 5 h, including a next event exactly at sleep end, and not otherwise.    *)
C10_TurnaroundWarning ==
    Returned =>
        LET u == args.next_event - args.sleep_end
            warned == \E i \in 1..Len(result.warnings) :
                         /\ result.warnings[i].severity = "critical"
                         /\ result.warnings[i].message =
                              "Very short turnaround with minimal sleep"
        IN  warned <=> (u < 120 /\ result.actual_sleep_hours < 300)

(***************************************************************************)
(* Workload model (core/workload.py).                                      *)
(*                                                                         *)
(* Multipliers are in hundredths (1.0 is 100); the combined multiplier, a  *)
(* product of two of them, is in ten-thousandths (1.0 is 10000).           *)
(***************************************************************************)

FlightPhases ==
    {"PREFLIGHT", "TAXI_OUT", "TAKEOFF", "CLIMB", "CRUISE", "DESCENT",
     "APPROACH", "LANDING", "TAXI_IN", "GROUND_TURNAROUND"}

WORKLOAD_MULTIPLIERS ==
    [phase \in FlightPhases |->
        CASE phase = "PREFLIGHT" -> 110
          [] phase = "TAXI_OUT" -> 100
          [] phase = "TAKEOFF" -> 180
          [] phase = "CLIMB" -> 130
          [] phase = "CRUISE" -> 80
          [] phase = "DESCENT" -> 120
          [] phase = "APPROACH" -> 150
          [] phase = "LANDING" -> 200
          [] phase = "TAXI_IN" -> 100
          [] phase = "GROUND_TURNAROUND" -> 120]

SECTOR_PENALTY_RATE == 15

(* dict.get(phase, 1.0): a phase without an entry counts 1.0 *)
get_phase_multiplier(phase) ==
    IF phase \in DOMAIN WORKLOAD_MULTIPLIERS THEN WORKLOAD_MULTIPLIERS[phase] ELSE 100

(* faulty variant: the penalty counted from the first sector on *)
get_sector_multiplier_from_first(sector_number) ==
    100 + sector_number * SECTOR_PENALTY_RATE

get_sector_multiplier(sector_number) ==
    100 + (sector_number - 1) * SECTOR_PENALTY_RATE

get_combined_multiplier(phase, sector_number) ==
    get_phase_multiplier(phase) * get_sector_multiplier(sector_number)

(* the largest sector number of a duty *)
MaxSector == 12

(* a phase the table has no entry for, beside the ten it has *)
Phases == FlightPhases \cup {"UNKNOWN"}

SectorNumbers == 1..MaxSector

InitWorkload ==
    /\ \/ \E phase \in Phases :
            args = [op |-> "get_phase_multiplier", phase |-> phase, sector_number |-> 1]
       \/ \E n \in SectorNumbers :
            args = [op |-> "get_sector_multiplier", phase |-> "UNKNOWN", sector_number |-> n]
       \/ \E phase \in Phases, n \in SectorNumbers :
            args = [op |-> "get_combined_multiplier", phase |-> phase, sector_number |-> n]
    /\ result = << >>
    /\ pc = "call"
    /\ NoStore
    /\ NoAuth
    /\ NoEngine

GetPhaseMultiplier ==
    /\ pc = "call"
    /\ args.op = "get_phase_multiplier"
    /\ result' = get_phase_multiplier(args.phase)
    /\ pc' = "returned"
    /\ UNCHANGED << args, store_vars, auth_vars, engine_vars >>

GetSectorMultiplier ==
    /\ pc = "call"
    /\ args.op = "get_sector_multiplier"
    /\ result' = get_sector_multiplier(args.sector_number)
    /\ pc' = "returned"
    /\ UNCHANGED << args, store_vars, auth_vars, engine_vars >>

GetCombinedMultiplier ==
    /\ pc = "call"
    /\ args.op = "get_combined_multiplier"
    /\ result' = get_combined_multiplier(args.phase, args.sector_number)
    /\ pc' = "returned"
    /\ UNCHANGED << args, store_vars, auth_vars, engine_vars >>

NextWorkload == GetPhaseMultiplier \/ GetSectorMultiplier \/ GetCombinedMultiplier

SpecWorkload == InitWorkload /\ [][NextWorkload]_vars

(* C11: the sector multiplier is 1 + (n - 1) * SECTOR_PENALTY_RATE, the    *)
(* combined multiplier is the phase multiplier times the sector            *)
(* multiplier, and for a fixed phase the combined multiplier does not      *)
(* decrease when the sector number grows.                                  *)
C11_SectorPenalty ==
    pc = "returned" =>
        LET n == args.sector_number
            phase_hundredths ==
                IF args.phase \in FlightPhases THEN WORKLOAD_MULTIPLIERS[args.phase] ELSE 100
        IN  /\ args.op = "get_sector_multiplier" => result = 100 + 15 * (n - 1)
            /\ args.op = "get_combined_multiplier" =>
                 /\ result = phase_hundredths * (100 + 15 * (n - 1))
                 /\ \A m \in SectorNumbers :
                      /\ m <= n => get_combined_multiplier(args.phase, m) <= result
                      /\ m >= n => get_combined_multiplier(args.phase, m) >= result

(* LANDING on the fourth sector: 2.0 * 1.45 = 2.9 *)
C11_Witness ==
    /\ pc = "returned"
    /\ args.op = "get_combined_multiplier"
    /\ args.phase = "LANDING"
    /\ args.sector_number = 4
    /\ result = 29000

(***************************************************************************)
(* Roster analysis endpoint (api/api_server.py) and the risk thresholds of *)
(* the configuration presets (core/parameters.py).                         *)
(*                                                                         *)
(* Performance scores are whole points; a duty's times are minutes on the  *)
(* UTC time line and its duty_hours is kept in minutes.  The parser and    *)
(* the simulation are calls into code outside this model: what they        *)
(* return, or that they raise, is part of the request drawn in the         *)
(* initial state.  An HTTP response is a record of status, detail and      *)
(* body; a warning string is modelled by its fixed text, without the       *)
(* formatted number of hours.                                              *)
(***************************************************************************)

classify_risk(performance) ==
    IF performance = << >> THEN "unknown"
    ELSE IF performance[1] >= 75 THEN "low"
    ELSE IF performance[1] >= 65 THEN "moderate"
    ELSE IF performance[1] >= 55 THEN "high"
    ELSE IF performance[1] >= 45 THEN "critical"
    ELSE "extreme"

(* RiskThresholds.thresholds of each preset, in the order of the dict *)
default_thresholds ==
    << <<"low", 75, 100>>, <<"moderate", 65, 75>>, <<"high", 55, 65>>,
       <<"critical", 45, 55>>, <<"extreme", 0, 45>> >>

conservative_thresholds ==
    << <<"low", 80, 100>>, <<"moderate", 70, 80>>, <<"high", 60, 70>>,
       <<"critical", 50, 60>>, <<"extreme", 0, 50>> >>

liberal_thresholds ==
    << <<"low", 70, 100>>, <<"moderate", 60, 70>>, <<"high", 50, 60>>,
       <<"critical", 40, 50>>, <<"extreme", 0, 40>> >>

(* config_map.get(config_preset, ModelConfig.default_easa_config)() *)
config_risk_thresholds(config_preset) ==
    CASE config_preset = "conservative" -> conservative_thresholds
      [] config_preset = "liberal" -> liberal_thresholds
      [] OTHER -> default_thresholds

(* RiskThresholds.classify: the first band with low <= performance < high, *)
(* 'extreme' when there is none                                            *)
classify(thresholds, performance) ==
    IF performance = << >> THEN "unknown"
    ELSE LET hits == {i \in 1..Len(thresholds) :
                         /\ thresholds[i][2] <= performance[1]
                         /\ performance[1] < thresholds[i][3]}
         IN  IF hits = {} THEN "extreme"
             ELSE thresholds[CHOOSE i \in hits : \A j \in hits : i <= j][1]

(* faulty variant: the length checks dropped *)
validate_duty_times_order_only(duty) ==
    IF duty.report_time_utc >= duty.release_time_utc
    THEN << "Invalid duty: report time >= release time" >>
    ELSE << >>

validate_duty_times(duty) ==
    (IF duty.report_time_utc >= duty.release_time_utc
     THEN << "Invalid duty: report time >= release time" >> ELSE << >>)
    \o (IF duty.duty_hours > 24 * 60 /\ ~duty.is_ulr
        THEN << "Unusual duty length" >>
        ELSE IF duty.duty_hours > 23 * 60 /\ duty.is_ulr
        THEN << "ULR duty exceeds max discretion limit" >>
        ELSE << >>)
    \o (IF duty.duty_hours < 30 THEN << "Very short duty" >> ELSE << >>)

(* faulty variant: the risk taken from the minimum performance alone *)
risk_score_of_min_only(duty_timeline) ==
    duty_timeline.min_performance

(* lines 669-671: landing performance, or minimum performance without one *)
risk_score_of(duty_timeline) ==
    IF duty_timeline.landing_performance = << >>
    THEN duty_timeline.min_performance
    ELSE duty_timeline.landing_performance

build_duty_response(duty_timeline, duty) ==
    LET risk == classify_risk(risk_score_of(duty_timeline))
    IN  [duty_id |-> duty.duty_id,
         min_performance |-> duty_timeline.min_performance,
         landing_performance |-> duty_timeline.landing_performance,
         risk_level |-> risk,
         is_reportable |-> risk \in {"critical", "extreme"},
         time_validation_warnings |-> validate_duty_times(duty)]

(* Roster.get_duty_index: the position of the duty, None when absent *)
get_duty_index(duties, duty_id) ==
    LET found == {i \in 1..Len(duties) : duties[i].duty_id = duty_id}
    IN  IF found = {} THEN << >> ELSE << CHOOSE i \in found : \A j \in found : i <= j >>

RECURSIVE duties_response_of(_, _)
(* lines 1067-1075: one response per timeline whose duty the roster has *)
duties_response_of(duty_timelines, duties) ==
    IF duty_timelines = << >> THEN << >>
    ELSE LET duty_idx == get_duty_index(duties, Head(duty_timelines).duty_id)
             rest == duties_response_of(Tail(duty_timelines), duties)
         IN  IF duty_idx = << >> THEN rest
             ELSE << build_duty_response(Head(duty_timelines), duties[duty_idx[1]]) >> \o rest

suffix_of(filename) ==
    CASE filename = "roster.pdf" -> ".pdf"
      [] filename = "ROSTER.CSV" -> ".csv"
      [] filename = "roster.txt" -> ".txt"
      [] OTHER -> ""

lower(timezone_format) ==
    CASE timezone_format = "Zulu" -> "zulu"
      [] OTHER -> timezone_format

valid_tz_formats == {"auto", "local", "homebase", "zulu"}

analysis_id_of(pilot_id, month, t) == << pilot_id, month, t >>

HTTPException(status_code, detail) ==
    [status |-> status_code, detail |-> detail, body |-> << >>]

(* faulty variant: the roster checked for duties after the simulation *)
analyze_failure_simulating_first(a) ==
    IF a.filename = "" THEN << HTTPException(400, "No file provided") >>
    ELSE IF suffix_of(a.filename) \notin {".pdf", ".csv"}
    THEN << HTTPException(400, "Unsupported file format. Use PDF or CSV.") >>
    ELSE IF lower(a.timezone_format) \notin valid_tz_formats
    THEN << HTTPException(400, "Invalid timezone_format") >>
    ELSE IF a.parser_raises THEN << HTTPException(500, "Analysis failed") >>
    ELSE IF a.simulation_raises THEN << HTTPException(500, "Analysis failed") >>
    ELSE IF a.duties = << >> THEN << HTTPException(400, "No duties found in roster") >>
    ELSE << >>

(* the HTTPException analyze_roster raises before it stores anything       *)
(* (lines 951-1027), None when it gets past the simulation                 *)
analyze_failure(a) ==
    IF a.filename = "" THEN << HTTPException(400, "No file provided") >>
    ELSE IF suffix_of(a.filename) \notin {".pdf", ".csv"}
    THEN << HTTPException(400, "Unsupported file format. Use PDF or CSV.") >>
    ELSE IF lower(a.timezone_format) \notin valid_tz_formats
    THEN << HTTPException(400, "Invalid timezone_format") >>
    ELSE IF a.parser_raises THEN << HTTPException(500, "Analysis failed") >>
    ELSE IF a.duties = << >> THEN << HTTPException(400, "No duties found in roster") >>
    ELSE IF a.simulation_raises THEN << HTTPException(500, "Analysis failed") >>
    ELSE << >>

AnalysisResponse(analysis_id, duties_response) ==
    [status |-> 200, detail |-> "",
     body |-> << [analysis_id |-> analysis_id, duties |-> duties_response] >>]

(* the score scale of the performance timeline *)
MaxScore == 100

(* duty lengths from -1 h in steps of a quarter of an hour *)
MaxDutySlot == 104

Scores == 0..MaxScore

DutyLengths == {15 * k - 60 : k \in 0..MaxDutySlot}

Presets == {"default", "conservative", "liberal", "research", "custom"}

(* Duty: duty_hours is the time from report to release *)
Duty(duty_id, report, length, is_ulr) ==
    [duty_id |-> duty_id, report_time_utc |-> report,
     release_time_utc |-> report + length, duty_hours |-> length, is_ulr |-> is_ulr]

DutyTimeline(duty_id, landing_performance, min_performance) ==
    [duty_id |-> duty_id, landing_performance |-> landing_performance,
     min_performance |-> min_performance]

PlainDuty(duty_id) == Duty(duty_id, FirstDay, 8 * 60, FALSE)

Request(filename, timezone_format, config_preset, authenticated, parser_raises, duties, simulation_raises, duty_timelines, roster_insert_raises, response_raises, commit_raises) ==
    [op |-> "analyze_roster", filename |-> filename, timezone_format |-> timezone_format,
     config_preset |-> config_preset, pilot_id |-> "P12345", month |-> "2026-02",
     authenticated |-> authenticated, parser_raises |-> parser_raises, duties |-> duties,
     simulation_raises |-> simulation_raises, duty_timelines |-> duty_timelines,
     roster_insert_raises |-> roster_insert_raises, response_raises |-> response_raises,
     commit_raises |-> commit_raises]

(* requests that differ in what is uploaded and in what fails on the way *)
FailureRequest ==
    \E filename \in {"", "roster.pdf", "ROSTER.CSV", "roster.txt"},
       timezone_format \in {"auto", "Zulu", "utc"},
       authenticated \in BOOLEAN, parser_raises \in BOOLEAN, empty \in BOOLEAN,
       simulation_raises \in BOOLEAN, roster_insert_raises \in BOOLEAN,
       response_raises \in BOOLEAN, commit_raises \in BOOLEAN :
        /\ authenticated => db_available
        /\ args = Request(filename, timezone_format, "default", authenticated, parser_raises,
                      IF empty THEN << >> ELSE << PlainDuty("D1") >>, simulation_raises,
                      IF empty THEN << >> ELSE << DutyTimeline("D1", << 70 >>, << 60 >>) >>,
                      roster_insert_raises, response_raises, commit_raises)

(* requests that differ in the preset and in the scores of the first duty; *)
(* the second duty is a training duty, the third timeline has no duty      *)
RiskRequest ==
    \E config_preset \in Presets, landing \in {<< >>} \cup {<< v >> : v \in Scores},
       min \in {<< 40 >>, << 50 >>, << 77 >>} :
        /\ ~db_available
        /\ args = Request("roster.pdf", "auto", config_preset, FALSE, FALSE,
                      << PlainDuty("D1"), PlainDuty("D2") >>, FALSE,
                      << DutyTimeline("D1", landing, min), DutyTimeline("D2", << >>, << 50 >>),
                         DutyTimeline("D9", << 30 >>, << 30 >>) >>,
                      FALSE, FALSE, FALSE)

(* requests that differ in the times of the first duty *)
TimesRequest ==
    \E length \in DutyLengths, is_ulr \in BOOLEAN :
        /\ ~db_available
        /\ args = Request("roster.pdf", "auto", "default", FALSE, FALSE,
                      << Duty("D1", FirstDay, length, is_ulr), PlainDuty("D2") >>, FALSE,
                      << DutyTimeline("D1", << 70 >>, << 60 >>),
                         DutyTimeline("D2", << 80 >>, << 75 >>) >>,
                      FALSE, FALSE, FALSE)

InitAnalyze ==
    /\ analysis_store = {}
    /\ db_rosters = {}
    /\ db_analyses = {}
    /\ db_available \in BOOLEAN
    /\ aggregate_metrics = {}
    /\ FailureRequest \/ RiskRequest \/ TimesRequest
    /\ result = << >>
    /\ pc = "call"
    /\ NoAuth
    /\ NoEngine

AnalyzeRoster ==
    /\ pc = "call"
    /\ args.op = "analyze_roster"
    /\ pc' = "returned"
    /\ LET failure == analyze_failure(args)
           analysis_id == analysis_id_of(args.pilot_id, args.month, now)
           pending_db_roster == args.authenticated /\ db_available /\ ~args.roster_insert_raises
           response == AnalysisResponse(analysis_id,
                           duties_response_of(args.duty_timelines, args.duties))
       IN  IF failure # << >>
           THEN /\ result' = failure[1]
                /\ UNCHANGED << analysis_store, db_rosters, db_analyses >>
           ELSE /\ analysis_store' =
                     {e \in analysis_store : e.analysis_id # analysis_id}
                         \cup {[analysis_id |-> analysis_id,
                                monthly_analysis |-> args.duty_timelines]}
                /\ IF args.response_raises
                   THEN /\ result' = HTTPException(500, "Analysis failed")
                        /\ UNCHANGED << db_rosters, db_analyses >>
                   ELSE /\ result' = response
                        /\ IF pending_db_roster /\ ~args.commit_raises
                           THEN /\ db_rosters' = db_rosters \cup {analysis_id}
                                /\ db_analyses' = db_analyses \cup {analysis_id}
                           ELSE UNCHANGED << db_rosters, db_analyses >>
    /\ UNCHANGED << args, db_available, aggregate_metrics, auth_vars, engine_vars >>

NextAnalyze == AnalyzeRoster

SpecAnalyze == InitAnalyze /\ [][NextAnalyze]_vars

-----------------------------------------------------------------------------
(* Claims about the roster analysis endpoint *)

Analyzed == pc = "returned" /\ args.op = "analyze_roster"

Succeeded == Analyzed /\ result.status = 200

(* the timeline a duty response was built from *)
TimelineOf(duty_id) ==
    CHOOSE i \in 1..Len(args.duty_timelines) : args.duty_timelines[i].duty_id = duty_id

DutyOf(duty_id) ==
    CHOOSE i \in 1..Len(args.duties) : args.duties[i].duty_id = duty_id

(* C28: an analyze_roster request that ends in an error response (4xx or   *)
(* 500, whichever step failed) leaves analysis_store unchanged: an         *)
(* analysis id is in the store only if the request that created it         *)
(* returned a successful response.                                         *)
C28_ErrorLeavesStoreUnchanged == Analyzed /\ result.status # 200 => analysis_store = {}

(* the same of the requests that fail before the response is built *)
EarlyErrorLeavesStoreUnchanged ==
    Analyzed /\ result.status # 200 /\ ~args.response_raises => analysis_store = {}

EarlyErrorReached ==
    Analyzed /\ result.status = 500 /\ args.simulation_raises /\ analysis_store = {}

(* C12: the risk level of a duty is the classification of its landing     *)
(* performance when it has one and of its minimum performance otherwise,   *)
(* and is_reportable is true exactly for the levels critical and extreme.  *)
C12_RiskFromLanding ==
    Succeeded =>
        \A i \in 1..Len(result.body[1].duties) :
            LET r == result.body[1].duties[i]
                t == args.duty_timelines[TimelineOf(r.duty_id)]
            IN  /\ t.landing_performance # << >> =>
                     r.risk_level = classify_risk(t.landing_performance)
                /\ t.landing_performance = << >> =>
                     r.risk_level = classify_risk(t.min_performance)
                /\ r.is_reportable <=> r.risk_level \in {"critical", "extreme"}

(* a landing at 50 with a minimum of 77 is critical and reportable, and    *)
(* the training duty of the same roster is classified by its minimum       *)
C12_Witness ==
    /\ Succeeded
    /\ Len(result.body[1].duties) = 2
    /\ args.duty_timelines[1].landing_performance = << 50 >>
    /\ args.duty_timelines[1].min_performance = << 77 >>
    /\ result.body[1].duties[1].risk_level = "critical"
    /\ result.body[1].duties[1].is_reportable
    /\ args.duty_timelines[2].landing_performance = << >>
    /\ result.body[1].duties[2].risk_level = "critical"

(* C13: the reported risk level is the classification of the score by the  *)
(* risk thresholds of the configuration preset the analysis was run with.  *)
C13_PresetThresholds ==
    Succeeded =>
        \A i \in 1..Len(result.body[1].duties) :
            LET r == result.body[1].duties[i]
                t == args.duty_timelines[TimelineOf(r.duty_id)]
            IN  r.risk_level =
                    classify(config_risk_thresholds(args.config_preset), risk_score_of(t))

(* C14: whatever the times of a duty, the analysis does not fail because   *)
(* of them: every duty of the roster is reported, and its                  *)
(* time_validation_warnings are the warnings its times call for.           *)
C14_TimeWarnings ==
    Analyzed /\ analyze_failure(args) = << >> /\ ~args.response_raises =>
        /\ result.status = 200
        /\ \A k \in 1..Len(args.duties) :
             \E i \in 1..Len(result.body[1].duties) :
                 result.body[1].duties[i].duty_id = args.duties[k].duty_id
        /\ \A i \in 1..Len(result.body[1].duties) :
             LET r == result.body[1].duties[i]
                 d == args.duties[DutyOf(r.duty_id)]
                 w == {r.time_validation_warnings[n] :
                          n \in 1..Len(r.time_validation_warnings)}
             IN  /\ "Invalid duty: report time >= release time" \in w
                      <=> d.report_time_utc >= d.release_time_utc
                 /\ "Unusual duty length" \in w
                      <=> (d.duty_hours > 24 * 60 /\ ~d.is_ulr)
                 /\ "ULR duty exceeds max discretion limit" \in w
                      <=> (d.duty_hours > 23 * 60 /\ d.is_ulr)
                 /\ "Very short duty" \in w <=> d.duty_hours < 30

(* a duty released when it reports gets two warnings, and the duty after   *)
(* it is reported without any                                              *)
C14_Witness ==
    /\ Succeeded
    /\ args.duties[1].report_time_utc = args.duties[1].release_time_utc
    /\ result.body[1].duties[1].time_validation_warnings =
           << "Invalid duty: report time >= release time", "Very short duty" >>
    /\ Len(result.body[1].duties) = 2
    /\ result.body[1].duties[2].time_validation_warnings = << >>

(* C15: a request whose parsed roster has no duties is answered 400 'No    *)
(* duties found in roster', also when the simulation would have raised,    *)
(* and leaves analysis_store and the database as they were.                *)
C15_NoDuties ==
    /\ Analyzed
    /\ suffix_of(args.filename) \in {".pdf", ".csv"}
    /\ lower(args.timezone_format) \in valid_tz_formats
    /\ ~args.parser_raises
    /\ args.duties = << >>
    => /\ result = HTTPException(400, "No duties found in roster")
       /\ analysis_store = {}
       /\ db_rosters = {}
       /\ db_analyses = {}

(* an authenticated upload of an empty roster whose simulation would raise *)
C15_Witness ==
    /\ Analyzed
    /\ args.duties = << >>
    /\ args.simulation_raises
    /\ args.authenticated
    /\ result.status = 400
    /\ result.detail = "No duties found in roster"
    /\ analysis_store = {}

(***************************************************************************)
(* Simulation engine: process S and pinch detection.                       *)
(*                                                                         *)
(* The parameters are those of BorbelyParameters (core/parameters.py).     *)
(* The walk itself follows the description of the engine: while awake S    *)
(* rises exponentially toward S_max with time constant tau_i, while asleep *)
(* it decays toward S_min with tau_d stretched by the slow-wave            *)
(* coefficient, one physiological state threads through the whole roster,  *)
(* and every sample of a duty is tested for a pinch.  S and the circadian  *)
(* component C are fixed-point with six decimals, periods are whole hours, *)
(* time constants are in tenths of an hour.  C is an input of each sample. *)
(***************************************************************************)

(* faulty variant: the bound on the 0-100 scale of the performance score *)
S_max_on_score_scale == 100 * One

S_max == One

S_min == 0

tau_i == 182

tau_d == 42

swa_diminishing_coeff == 150000

pinch_sleep_pressure_threshold == 700000

(* faulty variant: the pressure threshold used for the circadian test *)
pinch_circadian_threshold_of_pressure == pinch_sleep_pressure_threshold

pinch_circadian_threshold == 400000

(* exp(-x) for 0 <= x <= 0.25, by its series up to the fifth power *)
exp_neg(x) ==
    LET x2 == Mul6(x, x)
        x3 == Mul6(x2, x)
        x4 == Mul6(x3, x)
        x5 == Mul6(x4, x)
    IN  One - x + (x2 \div 2) - (x3 \div 6) + (x4 \div 24) - (x5 \div 120)

RECURSIVE Pow6(_, _)
(* base^n by repeated squaring *)
Pow6(base, n) ==
    IF n = 0 THEN One
    ELSE LET half == Pow6(base, n \div 2)
             square == Mul6(half, half)
         IN  IF n % 2 = 0 THEN square ELSE Mul6(square, base)

(* exp(-hours / tau_i) *)
awake_decay(hours) == Pow6(exp_neg((10 * One) \div tau_i), hours)

(* tau_d * (1 + swa_diminishing_coeff * hours / 8), in millionths of an hour *)
tau_d_effective(hours) ==
    Mul6(tau_d * 100000, One + (swa_diminishing_coeff * hours) \div 8)

(* exp(-hours / tau_d_effective) *)
asleep_decay(hours) ==
    Pow6(exp_neg((1000 * One) \div (tau_d_effective(hours) \div 1000)), hours)

(* S after a period awake: exponential approach to S_max *)
awake_pressure(s, hours) == S_max - Mul6(S_max - s, awake_decay(hours))

(* S after a sleep window: exponential decay to S_min *)
asleep_pressure(s, hours) == S_min + Mul6(s - S_min, asleep_decay(hours))

is_pinch(c, s) == c < pinch_circadian_threshold /\ s > pinch_sleep_pressure_threshold

(* the number of periods of a walk *)
MaxSamples == 3

(* the longest period awake, in hours *)
MaxAwakeHours == 400

(* the longest sleep window, in hours *)
MaxSleepHours == 14

AwakeHours == {0, 1, 8, MaxAwakeHours}

SleepHours == {1, 4, 8, MaxSleepHours}

CircadianSamples == {250000, 399999, 400000, 550000}

InitialPressures == {S_min, 300000, 700000, 700001, S_max}

InitEngine ==
    /\ S \in InitialPressures
    /\ timeline = << >>
    /\ pinch_events = << >>
    /\ args = << >>
    /\ result = << >>
    /\ pc = "walk"
    /\ NoStore
    /\ NoAuth

(* a period awake on duty, sampled at its end *)
DutySample ==
    /\ pc = "walk"
    /\ Len(timeline) < MaxSamples
    /\ \E hours \in AwakeHours, c \in CircadianSamples :
        LET s == awake_pressure(S, hours)
            point == [regime |-> "AWAKE", hours |-> hours, S_initial |-> S, S |-> s, C |-> << c >>]
        IN  /\ S' = s
            /\ timeline' = Append(timeline, point)
            /\ pinch_events' =
                 IF is_pinch(c, s)
                 THEN Append(pinch_events, [sample |-> Len(timeline) + 1, S |-> s, C |-> c])
                 ELSE pinch_events
    /\ UNCHANGED << args, result, pc, store_vars, auth_vars >>

(* a resolved sleep window *)
SleepWindow ==
    /\ pc = "walk"
    /\ Len(timeline) < MaxSamples
    /\ \E hours \in SleepHours :
        LET s == asleep_pressure(S, hours)
            point == [regime |-> "ASLEEP", hours |-> hours, S_initial |-> S, S |-> s, C |-> << >>]
        IN  /\ S' = s
            /\ timeline' = Append(timeline, point)
    /\ UNCHANGED << pinch_events, args, result, pc, store_vars, auth_vars >>

NextEngine == DutySample \/ SleepWindow

SpecEngine == InitEngine /\ [][NextEngine]_vars

-----------------------------------------------------------------------------
(* Claims about the simulation engine *)

PinchAt(i) == \E k \in 1..Len(pinch_events) : pinch_events[k].sample = i

ACCESS_TOKEN_EXPIRE_MINUTES == 30

REFRESH_TOKEN_EXPIRE_DAYS == 30

create_access_token(user_id, t) ==
    [sub |-> user_id, exp |-> t + ACCESS_TOKEN_EXPIRE_MINUTES * 60, type |-> "access"]

create_refresh_token(user_id, t) ==
    [sub |-> user_id, exp |-> t + REFRESH_TOKEN_EXPIRE_DAYS * 24 * 3600, type |-> "refresh"]

(* a string that is no JWT of this server *)
Undecodable == [sub |-> "", exp |-> 0, type |-> "undecodable"]

(* jwt.decode: the payload, or None for a JWTError (bad signature, expired) *)
decode_token(token, t) ==
    IF token = Undecodable THEN << >>
    ELSE IF token.exp < t THEN << >>
    ELSE << token >>

hash_token(token) == << "sha256", token >>

store_refresh_token(rows, user_id, raw_token, t) ==
    Append(rows, [user_id |-> user_id, token_hash |-> hash_token(raw_token),
                  expires_at |-> t + REFRESH_TOKEN_EXPIRE_DAYS * 24 * 3600])

TokenResponse(status, access, refresh) ==
    [status |-> status, detail |-> "",
     body |-> << [access_token |-> access, refresh_token |-> refresh] >>]

(* faulty variant: the type of the token not looked at *)
get_current_user_any_type(token, db, t) ==
    IF token = << >> \/ ~db THEN << >>
    ELSE LET payload == decode_token(token[1], t)
         IN  IF payload = << >> THEN << >>
             ELSE IF payload[1].sub \notin DOMAIN users THEN << >>
             ELSE IF ~users[payload[1].sub].is_active THEN << >>
             ELSE << payload[1].sub >>

(* the authenticated user, or None where the code raises HTTP 401 *)
get_current_user(token, db, t) ==
    IF token = << >> \/ ~db THEN << >>
    ELSE LET payload == decode_token(token[1], t)
         IN  IF payload = << >> THEN << >>
             ELSE IF payload[1].type # "access" THEN << >>
             ELSE IF payload[1].sub \notin DOMAIN users THEN << >>
             ELSE IF ~users[payload[1].sub].is_active THEN << >>
             ELSE << payload[1].sub >>

(* lines 201-208 of refresh_tokens: the payload of a refresh token, None   *)
(* where the code raises HTTP 401                                          *)
refresh_payload(token, t) ==
    LET payload == decode_token(token, t)
    IN  IF payload = << >> THEN << >>
        ELSE IF payload[1].type # "refresh" THEN << >>
        ELSE payload

(* the rows of the table with the hash, as the select of line 212 finds them *)
rows_with_hash(rows, hashed) ==
    {i \in 1..Len(rows) : rows[i].token_hash = hashed}

RECURSIVE delete_rows(_, _)
(* the table without the rows at the given positions *)
delete_rows(rows, positions) ==
    IF rows = << >> THEN << >>
    ELSE LET front == delete_rows(SubSeq(rows, 1, Len(rows) - 1), positions)
         IN  IF Len(rows) \in positions THEN front ELSE Append(front, rows[Len(rows)])

(* the number of requests of a run *)
MaxRequests == 4

(* the rows the refresh_tokens table may hold *)
MaxRows == 3

(* the index of the last instant at which requests arrive *)
MaxInstant == 3

(* the instants at which requests arrive: the set-up, one second later,    *)
(* just after the access token of the first second has expired, just after *)
(* the refresh token of the first second has expired, and seconds after    *)
Instant(i) ==
    CASE i = 0 -> 0
      [] i = 1 -> 1
      [] i = 2 -> 1 + ACCESS_TOKEN_EXPIRE_MINUTES * 60
      [] OTHER -> (i - 2) + REFRESH_TOKEN_EXPIRE_DAYS * 24 * 3600

Instants == {Instant(i) : i \in 0..MaxInstant}

Emails == {"a@x", "b@x"}

(* the tokens a client can send: those handed out, and one that is none *)
Presentable == issued \cup {Undecodable}

(* a database with an active account and a disabled one that signed in     *)
(* while it was active, an empty database, or none at all                  *)
InitAuth ==
    /\ now = 0
    /\ db_available \in BOOLEAN
    /\ \/ /\ db_available
          /\ users = [e \in Emails |-> [is_active |-> e = "a@x"]]
          /\ refresh_tokens =
                 store_refresh_token(<< >>, "b@x", create_refresh_token("b@x", 0), 0)
          /\ issued = {create_access_token("b@x", 0), create_refresh_token("b@x", 0)}
       \/ /\ users = << >>
          /\ refresh_tokens = << >>
          /\ issued = {}
    /\ rotated = {}
    /\ logged_out = {}
    /\ inflight = << >>
    /\ args = << >>
    /\ result = << >>
    /\ pc = 0
    /\ analysis_store = {}
    /\ db_rosters = {}
    /\ db_analyses = {}
    /\ aggregate_metrics = {}
    /\ NoEngine

Serve(request, response) ==
    /\ pc < MaxRequests
    /\ pc' = pc + 1
    /\ args' = request
    /\ result' = response

AuthFrame == UNCHANGED << now, inflight, db_available, analysis_store, db_rosters, db_analyses, aggregate_metrics, engine_vars >>

Register ==
    /\ \E email \in Emails :
        LET request == [op |-> "register", email |-> email]
            access == create_access_token(email, now)
            refresh == create_refresh_token(email, now)
        IN  IF ~db_available
            THEN /\ Serve(request, HTTPException(503, "Database not available"))
                 /\ UNCHANGED << users, refresh_tokens, issued >>
            ELSE IF email \in DOMAIN users
            THEN /\ Serve(request, HTTPException(409, "An account with this email already exists"))
                 /\ UNCHANGED << users, refresh_tokens, issued >>
            ELSE /\ Len(refresh_tokens) < MaxRows
                 /\ Serve(request, TokenResponse(201, access, refresh))
                 /\ users' = [e \in DOMAIN users \cup {email} |->
                                 IF e = email THEN [is_active |-> TRUE] ELSE users[e]]
                 /\ refresh_tokens' = store_refresh_token(refresh_tokens, email, refresh, now)
                 /\ issued' = issued \cup {access, refresh}
    /\ UNCHANGED << rotated, logged_out >>
    /\ AuthFrame

Login ==
    /\ \E email \in Emails, password_ok \in BOOLEAN :
        LET request == [op |-> "login", email |-> email, password_ok |-> password_ok]
            access == create_access_token(email, now)
            refresh == create_refresh_token(email, now)
        IN  IF ~db_available
            THEN /\ Serve(request, HTTPException(503, "Database not available"))
                 /\ UNCHANGED << refresh_tokens, issued >>
            ELSE IF email \notin DOMAIN users \/ ~password_ok
            THEN /\ Serve(request, HTTPException(401, "Invalid email or password"))
                 /\ UNCHANGED << refresh_tokens, issued >>
            ELSE IF ~users[email].is_active
            THEN /\ Serve(request, HTTPException(403, "Account is disabled"))
                 /\ UNCHANGED << refresh_tokens, issued >>
            ELSE /\ Len(refresh_tokens) < MaxRows
                 /\ Serve(request, TokenResponse(200, access, refresh))
                 /\ refresh_tokens' = store_refresh_token(refresh_tokens, email, refresh, now)
                 /\ issued' = issued \cup {access, refresh}
    /\ UNCHANGED << users, rotated, logged_out >>
    /\ AuthFrame

RefreshTokens ==
    /\ \E token \in Presentable :
        LET request == [op |-> "refresh", token |-> token]
            payload == refresh_payload(token, now)
            stored == rows_with_hash(refresh_tokens, hash_token(token))
            user_id == payload[1].sub
            access == create_access_token(user_id, now)
            refresh == create_refresh_token(user_id, now)
        IN  IF ~db_available
            THEN /\ Serve(request, HTTPException(503, "Database not available"))
                 /\ UNCHANGED << refresh_tokens, issued, rotated >>
            ELSE IF payload = << >>
            THEN /\ Serve(request, HTTPException(401, "Invalid or expired refresh token"))
                 /\ UNCHANGED << refresh_tokens, issued, rotated >>
            ELSE IF stored = {}
            THEN /\ Serve(request, HTTPException(401, "Refresh token has been revoked"))
                 /\ UNCHANGED << refresh_tokens, issued, rotated >>
            ELSE IF Cardinality(stored) > 1
            THEN (* scalar_one_or_none raises MultipleResultsFound *)
                 /\ Serve(request, HTTPException(500, "Internal Server Error"))
                 /\ UNCHANGED << refresh_tokens, issued, rotated >>
            ELSE IF user_id \notin DOMAIN users \/ ~users[user_id].is_active
            THEN /\ Serve(request, HTTPException(401, "User not found or disabled"))
                 /\ UNCHANGED << refresh_tokens, issued, rotated >>
            ELSE /\ Serve(request, TokenResponse(200, access, refresh))
                 /\ refresh_tokens' =
                      store_refresh_token(delete_rows(refresh_tokens, stored), user_id, refresh, now)
                 /\ issued' = issued \cup {access, refresh}
                 /\ rotated' = rotated \cup {token}
    /\ UNCHANGED << users, logged_out >>
    /\ AuthFrame

Logout ==
    /\ \E token \in Presentable :
        LET request == [op |-> "logout", token |-> token]
            response == [status |-> 204, detail |-> "", body |-> << >>]
        IN  IF ~db_available
            THEN /\ Serve(request, response)
                 /\ UNCHANGED << refresh_tokens, logged_out >>
            ELSE /\ Serve(request, response)
                 /\ refresh_tokens' =
                      delete_rows(refresh_tokens, rows_with_hash(refresh_tokens, hash_token(token)))
                 /\ logged_out' = logged_out \cup {token}
    /\ UNCHANGED << users, issued, rotated >>
    /\ AuthFrame

(* GET /api/auth/me, an endpoint behind get_current_user *)
GetProfile ==
    /\ \E token \in {<< >>} \cup {<< t >> : t \in Presentable} :
        LET request == [op |-> "me", token |-> token]
            user == get_current_user(token, db_available, now)
        IN  IF user = << >>
            THEN Serve(request, HTTPException(401, "Invalid or expired token"))
            ELSE Serve(request, [status |-> 200, detail |-> "", body |-> user])
    /\ UNCHANGED << users, refresh_tokens, issued, rotated, logged_out >>
    /\ AuthFrame

(* time passes until the next instant at which requests arrive *)
Tick ==
    /\ \E t \in Instants :
        /\ t > now
        /\ \A u \in Instants : u > now => t <= u
        /\ now' = t
    /\ UNCHANGED << args, result, pc, users, refresh_tokens, issued, rotated, logged_out, inflight >>
    /\ UNCHANGED << db_available, analysis_store, db_rosters, db_analyses, aggregate_metrics, engine_vars >>

NextAuth == Register \/ Login \/ RefreshTokens \/ Logout \/ GetProfile \/ Tick

SpecAuth == InitAuth /\ [][NextAuth]_vars

-----------------------------------------------------------------------------
(* Claims about authentication *)

(* the step serves a refresh request *)
ServesRefresh == pc' = pc + 1 /\ args'.op = "refresh"

(* C18: once a refresh has succeeded with a token, every later refresh     *)
(* presenting that token is answered 401 and hands out no tokens.          *)
C18_RefreshRotates ==
    [][ServesRefresh /\ args'.token \in rotated
            => result'.status = 401 /\ issued' = issued]_vars

(* C19: once a logout has been served for a token with the database        *)
(* available, every later refresh presenting that token is answered 401.   *)
C19_LogoutRevokes ==
    [][ServesRefresh /\ args'.token \in logged_out => result'.status = 401]_vars

(* C20: get_current_user authenticates only with an access token, of a     *)
(* user that exists and is active, and answers 401 to a refresh token; the *)
(* refresh endpoint succeeds only with a refresh token and answers 401 to  *)
(* an access token.                                                        *)
C20_TokenTypes ==
    pc > 0 =>
        /\ args.op = "me" /\ result.status = 200 =>
             /\ args.token # << >>
             /\ args.token[1].type = "access"
             /\ args.token[1].sub \in DOMAIN users
             /\ users[args.token[1].sub].is_active
             /\ result.body = << args.token[1].sub >>
        /\ args.op = "me" /\ args.token # << >> /\ args.token[1].type = "refresh" =>
             result.status = 401
        /\ args.op = "refresh" /\ result.status = 200 => args.token.type = "refresh"
        /\ args.op = "refresh" /\ args.token.type = "access" => result.status = 401

(* the unexpired refresh token of an active user, still stored, sent as a  *)
(* bearer token and answered 401                                           *)
C20_Witness ==
    /\ pc > 0
    /\ args.op = "me"
    /\ args.token # << >>
    /\ args.token[1].type = "refresh"
    /\ args.token[1].sub = "a@x"
    /\ args.token[1].exp >= now
    /\ rows_with_hash(refresh_tokens, hash_token(args.token[1])) # {}
    /\ result.status = 401

-----------------------------------------------------------------------------
(***************************************************************************)
(* Peer-comparison metrics: metrics/aggregator.py and metrics/routes.py.   *)
(*                                                                         *)
(* Performance scores and sleep debts are integers in tenths (the code     *)
(* rounds them to one decimal), a month "YYYY-MM" is the integer YYYYMM,   *)
(* which orders as the string does, and a group_value is the tuple of the  *)
(* parts of the string.  A nullable column is << >> or << v >>; the empty  *)
(* JSON object is << >>.  Of the metrics of a pilot and of a group the     *)
(* model keeps the performance and the sleep debt.                         *)
(***************************************************************************)

MIN_SAMPLE_SIZE == 5

(* Python truthiness of an optional string and of an optional number *)
nonempty(column) == column # << >> /\ column[1] # ""

nonzero(column) == column # << >> /\ column[1] # 0

(* round(): the fraction num / den to the nearest integer, ties to even *)
round_half_even(num, den) ==
    LET q == num \div den
        r == num % den
    IN  IF 2 * r < den THEN q
        ELSE IF 2 * r > den THEN q + 1
        ELSE IF q % 2 = 0 THEN q ELSE q + 1

RECURSIVE sum_of(_)
sum_of(values) ==
    IF values = << >> THEN 0 ELSE Head(values) + sum_of(Tail(values))

(* roster.analyses *)
analyses_of(analyses, roster) == {a \in analyses : a.roster_id = roster.id}

(* the avg_performance of the duties of a stored analysis that have one *)
all_perf(aj) ==
    LET duties == IF "duties" \in DOMAIN aj THEN aj.duties ELSE << >>
        known == SelectSeq(duties, LAMBDA d : d.avg_performance # << >>)
    IN  [i \in 1..Len(known) |-> known[i].avg_performance[1]]

average_sleep_debt_of(aj) ==
    IF "average_sleep_debt" \in DOMAIN aj THEN aj.average_sleep_debt ELSE 0

(* the mean of the duties is exact in tenths for the rosters drawn below *)
extract_pilot_data(roster, analysis) ==
    LET aj == analysis.analysis_json
        perfs == all_perf(aj)
    IN  IF aj = << >>
        THEN << >>
        ELSE << [user_id |-> roster.user_id,
                 fleet |-> roster.fleet,
                 pilot_role |-> roster.pilot_role,
                 avg_performance |-> IF perfs = << >> THEN 0
                                     ELSE sum_of(perfs) \div Len(perfs),
                 avg_sleep_debt |-> average_sleep_debt_of(aj)] >>

(* the groups a pilot is a member of *)
group_keys_of(d) ==
    {<< "company", << "all" >> >>}
    \cup (IF nonempty(d.fleet) THEN {<< "fleet", << d.fleet[1] >> >>} ELSE {})
    \cup (IF nonempty(d.pilot_role) THEN {<< "role", << d.pilot_role[1] >> >>} ELSE {})
    \cup (IF nonempty(d.fleet) /\ nonempty(d.pilot_role)
          THEN {<< "fleet_role", << d.fleet[1], "_", d.pilot_role[1] >> >>}
          ELSE {})

build_groups(data) ==
    LET keys == {<< "company", << "all" >> >>} \cup UNION {group_keys_of(d) : d \in data}
    IN  [key \in keys |-> {d \in data : key \in group_keys_of(d)}]

RECURSIVE sorted_performances(_)
sorted_performances(members) ==
    IF members = {}
    THEN << >>
    ELSE LET least == CHOOSE m \in members :
                          \A o \in members : m.avg_performance <= o.avg_performance
         IN  << least.avg_performance >> \o sorted_performances(members \ {least})

RECURSIVE total_sleep_debt(_)
total_sleep_debt(members) ==
    IF members = {}
    THEN 0
    ELSE LET m == CHOOSE o \in members : TRUE
         IN  m.avg_sleep_debt + total_sleep_debt(members \ {m})

(* the percentile p of the sorted values, in hundredths of their unit *)
percentile(sorted_data, p) ==
    LET n == Len(sorted_data)
        f == ((n - 1) * p) \div 100
        d == ((n - 1) * p) % 100
    IN  IF n = 0 THEN 0
        ELSE IF n = 1 THEN 100 * sorted_data[1]
        ELSE IF f + 1 >= n THEN 100 * sorted_data[n]
        ELSE 100 * sorted_data[f + 1] + d * (sorted_data[f + 2] - sorted_data[f + 1])

aggregate_group(members) ==
    LET perfs == sorted_performances({m \in members : m.avg_performance > 0})
        n == Cardinality(members)
    IN  [avg_performance |-> IF perfs = << >> THEN << >>
                             ELSE << round_half_even(sum_of(perfs), Len(perfs)) >>,
         min_performance |-> IF perfs = << >> THEN << >> ELSE << perfs[1] >>,
         p25_performance |-> IF perfs = << >> THEN << >>
                             ELSE << round_half_even(percentile(perfs, 25), 100) >>,
         p75_performance |-> IF perfs = << >> THEN << >>
                             ELSE << round_half_even(percentile(perfs, 75), 100) >>,
         avg_sleep_debt |-> IF n = 0 THEN << >>
                            ELSE << round_half_even(total_sleep_debt(members), n) >>]

(* the rosters of the company and month whose first analysis holds data *)
rosters_with_data(rosters, analyses, company_id, month) ==
    {r \in rosters :
        /\ r.company_id = << company_id >>
        /\ r.month = month
        /\ \E a \in analyses_of(analyses, r) : extract_pilot_data(r, a) # << >>}

(* the loop over the rosters keeps the first roster with data of each     *)
(* user; the query has no ORDER BY, so any of the user's rosters may be   *)
(* the first                                                               *)
pilot_data_choices(rosters, analyses, company_id, month) ==
    LET with_data == rosters_with_data(rosters, analyses, company_id, month)
        kept == {picked \in SUBSET with_data :
                    \A r \in with_data :
                        Cardinality({q \in picked : q.user_id = r.user_id}) = 1}
    IN  {{extract_pilot_data(r, CHOOSE a \in analyses_of(analyses, r) : TRUE)[1] : r \in picked} :
             picked \in kept}

AggregateMetrics(company_id, month, key, members) ==
    LET metrics == aggregate_group(members)
    IN  [company_id |-> company_id,
         month |-> month,
         group_type |-> key[1],
         group_value |-> key[2],
         sample_size |-> Cardinality(members),
         avg_performance |-> metrics.avg_performance,
         min_performance |-> metrics.min_performance,
         p25_performance |-> metrics.p25_performance,
         p75_performance |-> metrics.p75_performance,
         avg_sleep_debt |-> metrics.avg_sleep_debt]

(* the rows added for the pilot data: one per group *)
metrics_rows(company_id, month, pilot_data) ==
    LET groups == build_groups(pilot_data)
    IN  {AggregateMetrics(company_id, month, key, groups[key]) : key \in DOMAIN groups}

(* the table after compute_aggregate_metrics ran on the pilot data *)
compute_aggregate_metrics(table, company_id, month, pilot_data) ==
    IF pilot_data = {}
    THEN table
    ELSE {row \in table : ~(row.company_id = company_id /\ row.month = month)}
         \cup metrics_rows(company_id, month, pilot_data)

(* the pilot's own metrics: those of the most recent roster of the month *)
get_pilot_metrics(rosters, analyses, user_id, month) ==
    LET mine == {r \in rosters : r.user_id = user_id /\ r.month = month}
        roster == CHOOSE r \in mine : \A o \in mine : o.created_at <= r.created_at
        aj == (CHOOSE a \in analyses_of(analyses, roster) : TRUE).analysis_json
        perfs == all_perf(aj)
    IN  IF mine = {} \/ analyses_of(analyses, roster) = {}
        THEN [avg_performance |-> << >>, avg_sleep_debt |-> 0]
        ELSE [avg_performance |-> IF perfs = << >> THEN << >>
                                  ELSE << round_half_even(sum_of(perfs), Len(perfs)) >>,
              avg_sleep_debt |-> average_sleep_debt_of(aj)]

(* the position among the peers estimated from the quartiles, 0 to 100;   *)
(* the fallback range of 1 score point is 10 tenths                        *)
estimate_percentile(value, p25, mean, p75) ==
    IF value = << >> \/ mean = << >>
    THEN << >>
    ELSE LET v == value[1]
             m == mean[1]
         IN  IF p25 # << >> /\ p75 # << >> /\ p75[1] > p25[1]
             THEN LET lo == p25[1]
                      hi == p75[1]
                      range_below == IF m > lo THEN m - lo ELSE 10
                      range_above == IF hi > m THEN hi - m ELSE 10
                  IN  IF v <= lo
                      THEN << Max(0, round_half_even(25 * (range_below - (lo - v)), range_below)) >>
                      ELSE IF v <= m
                      THEN << IF m > lo THEN round_half_even(25 * (m - lo) + 25 * (v - lo), m - lo) ELSE 50 >>
                      ELSE IF v <= hi
                      THEN << IF hi > m THEN round_half_even(50 * (hi - m) + 25 * (v - m), hi - m) ELSE 50 >>
                      ELSE << Min(100, round_half_even(75 * range_above + 25 * (v - hi), range_above)) >>
             ELSE IF v >= m THEN << 60 >> ELSE << 40 >>

(* the same for a metric of which less is better *)
estimate_percentile_inverted(value, group_avg) ==
    IF group_avg = << >> \/ group_avg[1] = 0
    THEN 50
    ELSE LET a == group_avg[1]
         IN  IF 10 * value <= 5 * a THEN 90
             ELSE IF 10 * value <= 8 * a THEN 70
             ELSE IF 10 * value <= 10 * a THEN 55
             ELSE IF 10 * value <= 12 * a THEN 40
             ELSE IF 10 * value <= 15 * a THEN 25
             ELSE 10

GroupMetrics(agg) ==
    [group_type |-> agg.group_type,
     group_value |-> agg.group_value,
     sample_size |-> agg.sample_size,
     avg_performance |-> agg.avg_performance,
     min_performance |-> agg.min_performance,
     p25_performance |-> agg.p25_performance,
     p75_performance |-> agg.p75_performance,
     avg_sleep_debt |-> agg.avg_sleep_debt]

PercentilePosition(agg, metric, value, percentile_of, vs_avg) ==
    [group_type |-> agg.group_type,
     group_value |-> agg.group_value,
     metric |-> metric,
     value |-> value,
     percentile |-> percentile_of,
     vs_avg |-> vs_avg]

(* the positions of the pilot in one group *)
positions_in(agg, pilot_metrics) ==
    (IF nonzero(pilot_metrics.avg_performance) /\ nonzero(agg.avg_performance)
     THEN {PercentilePosition(agg, "performance", pilot_metrics.avg_performance,
               estimate_percentile(pilot_metrics.avg_performance, agg.p25_performance,
                                   agg.avg_performance, agg.p75_performance),
               << pilot_metrics.avg_performance[1] - agg.avg_performance[1] >>)}
     ELSE {})
    \cup
    (IF agg.avg_sleep_debt # << >>
     THEN {PercentilePosition(agg, "sleep_debt", << pilot_metrics.avg_sleep_debt >>,
               << estimate_percentile_inverted(pilot_metrics.avg_sleep_debt, agg.avg_sleep_debt) >>,
               IF nonzero(agg.avg_sleep_debt)
               THEN << pilot_metrics.avg_sleep_debt - agg.avg_sleep_debt[1] >>
               ELSE << >>)}
     ELSE {})

(* faulty variant: every group of the company and month exposed *)
exposed_unfiltered(aggregates) == aggregates

(* the aggregate rows the privacy filter lets through *)
exposed(aggregates) == {agg \in aggregates : ~(agg.sample_size < MIN_SAMPLE_SIZE)}

ComparativeResponse(month, pilot_metrics, aggregates) ==
    [status |-> 200, detail |-> "",
     body |-> << [month |-> month,
                  pilot |-> pilot_metrics,
                  groups |-> {GroupMetrics(agg) : agg \in exposed(aggregates)},
                  positions |-> UNION {positions_in(agg, pilot_metrics) : agg \in exposed(aggregates)},
                  has_sufficient_data |-> exposed(aggregates) # {}] >>]

(* GET /api/metrics/comparative; month is << >> when the query has none *)
get_comparative_metrics(month, user, db, rosters, analyses, table) ==
    LET mine == {r \in rosters : r.user_id = user.id}
        most_recent == CHOOSE r \in mine : \A o \in mine : o.month <= r.month
        the_month == IF month = << >> THEN most_recent.month ELSE month[1]
        aggregates == {agg \in table :
                          << agg.company_id >> = user.company_id /\ agg.month = the_month}
    IN  IF ~db
        THEN HTTPException(503, "Database not available")
        ELSE IF ~nonempty(user.company_id)
        THEN HTTPException(400, "No company assigned")
        ELSE IF month = << >> /\ mine = {}
        THEN HTTPException(404, "No rosters found")
        ELSE ComparativeResponse(the_month,
                 get_pilot_metrics(rosters, analyses, user.id, the_month), aggregates)

TrendPoint(month, group_type, group_value, your_performance, group_avg_performance, percentile_of, sample_size) ==
    [month |-> month,
     group_type |-> group_type,
     group_value |-> group_value,
     your_performance |-> your_performance,
     group_avg_performance |-> group_avg_performance,
     percentile |-> percentile_of,
     sample_size |-> sample_size]

(* the trend point of one roster, if it gets one *)
trend_point(roster, user, group_type, group_value, analyses, table) ==
    LET aj == (CHOOSE a \in analyses_of(analyses, roster) : TRUE).analysis_json
        perfs == all_perf(aj)
        pilot_perf == IF perfs = << >> THEN << >>
                      ELSE << round_half_even(sum_of(perfs), Len(perfs)) >>
        matching == {agg \in table :
                        /\ << agg.company_id >> = user.company_id
                        /\ agg.month = roster.month
                        /\ agg.group_type = group_type
                        /\ agg.group_value = group_value}
        agg == CHOOSE row \in matching : TRUE
    IN  IF analyses_of(analyses, roster) = {}
        THEN << >>
        ELSE IF matching # {} /\ agg.sample_size >= MIN_SAMPLE_SIZE /\ pilot_perf # << >>
        THEN << TrendPoint(roster.month, group_type, group_value, pilot_perf,
                           agg.avg_performance,
                           estimate_percentile(pilot_perf, agg.p25_performance,
                                               agg.avg_performance, agg.p75_performance),
                           agg.sample_size) >>
        ELSE IF pilot_perf # << >>
        THEN << TrendPoint(roster.month, group_type, group_value, pilot_perf, << >>, << >>, 0) >>
        ELSE << >>

RECURSIVE trend_points(_, _, _, _, _, _)
trend_points(rosters, user, group_type, group_value, analyses, table) ==
    IF rosters = << >>
    THEN << >>
    ELSE trend_point(Head(rosters), user, group_type, group_value, analyses, table)
         \o trend_points(Tail(rosters), user, group_type, group_value, analyses, table)

(* the orders in which the query may return the rosters of a user: month   *)
(* descending, rosters of the same month in any order                      *)
by_month_desc(mine) ==
    {order \in [1..Cardinality(mine) -> mine] :
        /\ \A i, j \in 1..Cardinality(mine) : i # j => order[i] # order[j]
        /\ \A i, j \in 1..Cardinality(mine) : i < j => order[i].month >= order[j].month}

TrendResponse(months, primary_group) ==
    [status |-> 200, detail |-> "",
     body |-> << [months |-> months, primary_group |-> primary_group] >>]

(* GET /api/metrics/comparative/trend, the query having returned order *)
get_comparative_trend(user, db, order, analyses, table) ==
    LET rosters == SubSeq(order, 1, Min(12, Len(order)))
        fleet == rosters[1].fleet
        primary_group_type == IF nonempty(fleet) THEN "fleet" ELSE "company"
        primary_group_value == IF nonempty(fleet) THEN << fleet[1] >> ELSE << "all" >>
        chronological == [i \in 1..Len(rosters) |-> rosters[Len(rosters) + 1 - i]]
    IN  IF ~db
        THEN HTTPException(503, "Database not available")
        ELSE IF ~nonempty(user.company_id)
        THEN HTTPException(400, "No company assigned.")
        ELSE IF rosters = << >>
        THEN TrendResponse(<< >>, << >>)
        ELSE TrendResponse(
                 trend_points(chronological, user, primary_group_type, primary_group_value,
                              analyses, table),
                 << primary_group_type, ":", primary_group_value >>)

(* ---- bounds and inputs ---- *)

(* the pilots of the company are 1..MaxPilots *)
MaxPilots == 6

Pilots == 1..MaxPilots

(* the months "2025-01" and "2025-02" *)
Months == {202501, 202502}

Company == "easyjet"

FleetOf(pilot, version) ==
    IF version = 2 \/ pilot > MIN_SAMPLE_SIZE THEN << "A321" >> ELSE << "A320" >>

RoleOf(pilot) ==
    IF pilot < MIN_SAMPLE_SIZE THEN << "captain" >>
    ELSE IF pilot = MIN_SAMPLE_SIZE THEN << "first_officer" >>
    ELSE << >>

(* the rosters of the first month that the database holds from the start  *)
Seeded == {<< p, 202501, 1 >> : p \in 3..(MaxPilots - 1)}

(* the rosters uploaded and deleted later: those of pilots 1, 2 and the    *)
(* last one for the first month, a second one of pilot 1 flying another    *)
(* fleet, and those of pilots 1 and 2 for the second month                 *)
Uploads ==
    {<< p, 202501, 1 >> : p \in {1, 2, MaxPilots}}
    \cup {<< 1, 202501, 2 >>, << 1, 202502, 1 >>, << 2, 202502, 1 >>}

RosterRow(upload) ==
    [id |-> upload,
     user_id |-> upload[1],
     company_id |-> << Company >>,
     month |-> upload[2],
     fleet |-> FleetOf(upload[1], upload[3]),
     pilot_role |-> RoleOf(upload[1]),
     created_at |-> upload[3]]

(* the analysis stored with a roster: two duties, one of them without a   *)
(* performance; the roster of pilot 2 for the second month has an empty    *)
(* analysis, and the older analyses have no average_sleep_debt             *)
AnalysisRow(upload) ==
    [roster_id |-> upload,
     analysis_json |->
         IF upload[1] = 2 /\ upload[2] = 202502
         THEN << >>
         ELSE IF upload[1] % 2 = 0
         THEN [duties |-> << [avg_performance |-> << 600 + 50 * upload[1] >>],
                            [avg_performance |-> << >>] >>]
         ELSE [duties |-> << [avg_performance |-> << 600 + 50 * upload[1] - 20 * upload[3] >>],
                            [avg_performance |-> << 600 + 50 * upload[1] + 20 * upload[3] >>] >>,
               average_sleep_debt |-> 5 * upload[1]]]

(* the users asking for their metrics: pilots of the company and a user    *)
(* with no company                                                         *)
MetricsUsers ==
    {[id |-> p, company_id |-> << Company >>] : p \in {1, 2, MaxPilots}}
    \cup {[id |-> 0, company_id |-> << >>]}

InitMetrics ==
    /\ db_available \in BOOLEAN
    /\ db_rosters = IF db_available THEN {RosterRow(u) : u \in Seeded} ELSE {}
    /\ db_analyses = IF db_available THEN {AnalysisRow(u) : u \in Seeded} ELSE {}
    /\ aggregate_metrics = {}
    /\ analysis_store = {}
    /\ args = << >>
    /\ result = << >>
    /\ pc = "serving"
    /\ NoAuth
    /\ NoEngine

MetricsFrame == UNCHANGED << pc, db_available, analysis_store, auth_vars, engine_vars >>

(* analyze_roster of an authenticated pilot stores the roster and its      *)
(* analysis                                                                *)
StoreRoster ==
    /\ db_available
    /\ \E upload \in Uploads :
          /\ RosterRow(upload) \notin db_rosters
          /\ db_rosters' = db_rosters \cup {RosterRow(upload)}
          /\ db_analyses' = db_analyses \cup {AnalysisRow(upload)}
          /\ args' = [op |-> "analyze_roster", upload |-> upload]
          /\ result' = [status |-> 200, detail |-> "", body |-> << >>]
    /\ UNCHANGED aggregate_metrics
    /\ MetricsFrame

DeleteRoster ==
    /\ \E roster_id \in Uploads, user \in MetricsUsers :
          LET found == {r \in db_rosters : r.id = roster_id /\ r.user_id = user.id}
          IN  /\ args' = [op |-> "delete_roster", roster_id |-> roster_id, user |-> user]
              /\ IF ~db_available
                 THEN /\ result' = HTTPException(503, "Database not available")
                      /\ UNCHANGED << db_rosters, db_analyses >>
                 ELSE IF found = {}
                 THEN /\ result' = HTTPException(404, "Roster not found")
                      /\ UNCHANGED << db_rosters, db_analyses >>
                 ELSE /\ result' = [status |-> 204, detail |-> "", body |-> << >>]
                      /\ db_rosters' = db_rosters \ found
                      /\ db_analyses' = {a \in db_analyses : a.roster_id # roster_id}
    /\ UNCHANGED aggregate_metrics
    /\ MetricsFrame

(* the call logs "info" when it has stored the rows, "warning" when an     *)
(* exception made it roll back, and nothing when it found no pilot data    *)
ComputeAggregateMetrics ==
    /\ db_available
    /\ \E month \in Months, raises \in BOOLEAN :
          \E pilot_data \in pilot_data_choices(db_rosters, db_analyses, Company, month) :
              /\ args' = [op |-> "compute_aggregate_metrics", company_id |-> Company, month |-> month]
              /\ IF raises
                 THEN /\ result' = [logged |-> "warning"]
                      /\ UNCHANGED aggregate_metrics
                 ELSE /\ result' = [logged |-> IF pilot_data = {} THEN "" ELSE "info"]
                      /\ aggregate_metrics' =
                             compute_aggregate_metrics(aggregate_metrics, Company, month, pilot_data)
    /\ UNCHANGED << db_rosters, db_analyses >>
    /\ MetricsFrame

GetComparativeMetrics ==
    /\ \E user \in MetricsUsers, month \in {<< >>} \cup {<< m >> : m \in Months} :
          /\ args' = [op |-> "get_comparative_metrics", user |-> user, month |-> month]
          /\ result' = get_comparative_metrics(month, user, db_available, db_rosters,
                                               db_analyses, aggregate_metrics)
    /\ UNCHANGED << db_rosters, db_analyses, aggregate_metrics >>
    /\ MetricsFrame

GetComparativeTrend ==
    /\ \E user \in MetricsUsers :
          \E order \in by_month_desc({r \in db_rosters : r.user_id = user.id}) :
              /\ args' = [op |-> "get_comparative_trend", user |-> user]
              /\ result' = get_comparative_trend(user, db_available, order, db_analyses,
                                                 aggregate_metrics)
    /\ UNCHANGED << db_rosters, db_analyses, aggregate_metrics >>
    /\ MetricsFrame

NextMetrics ==
    \/ StoreRoster
    \/ DeleteRoster
    \/ ComputeAggregateMetrics
    \/ GetComparativeMetrics
    \/ GetComparativeTrend

SpecMetrics == InitMetrics /\ [][NextMetrics]_vars

(* ---- claims about the metrics ---- *)

Served(op) == args # << >> /\ args.op = op

(* the aggregate rows of the company of the requesting user for a month *)
RowsFor(month) ==
    {agg \in aggregate_metrics : << agg.company_id >> = args.user.company_id /\ agg.month = month}

(* the aggregate rows an entry of a response belongs to *)
RowsOf(entry, month) ==
    {agg \in RowsFor(month) :
        agg.group_type = entry.group_type /\ agg.group_value = entry.group_value}

(* C21: peer groups with fewer than 5 pilots are never exposed: every      *)
(* entry of groups and of positions in a comparative-metrics response      *)
(* belongs to an aggregate row with sample_size >= 5, has_sufficient_data  *)
(* is true exactly when some row of the company and month has              *)
(* sample_size >= 5, and a trend point of a group and month whose row has  *)
(* sample_size < 5 carries neither a group average nor a percentile.       *)
C21_SmallGroupsHidden ==
    /\ Served("get_comparative_metrics") /\ result.status = 200 =>
           LET body == result.body[1]
           IN  /\ \A entry \in body.groups \cup body.positions :
                      /\ RowsOf(entry, body.month) # {}
                      /\ \A agg \in RowsOf(entry, body.month) : agg.sample_size >= 5
               /\ body.has_sufficient_data <=>
                      \E agg \in RowsFor(body.month) : agg.sample_size >= 5
    /\ Served("get_comparative_trend") /\ result.status = 200 =>
           LET months == result.body[1].months
           IN  \A i \in 1..Len(months) :
                   (\E agg \in RowsOf(months[i], months[i].month) : agg.sample_size < 5)
                       => /\ months[i].group_avg_performance = << >>
                          /\ months[i].percentile = << >>

(* a response that shows a group of 5 pilots while the table also holds a  *)
(* smaller group of the same month                                         *)
C21_Witness ==
    /\ Served("get_comparative_metrics")
    /\ result.status = 200
    /\ result.body[1].groups # {}
    /\ result.body[1].positions # {}
    /\ \E agg \in RowsFor(result.body[1].month) : agg.sample_size < 5

(* a trend with a point of a small group beside a point of a group of 5 *)
C21_TrendReached ==
    /\ Served("get_comparative_trend")
    /\ result.status = 200
    /\ \E i, j \in 1..Len(result.body[1].months) :
           LET months == result.body[1].months
           IN  /\ \E agg \in RowsOf(months[i], months[i].month) : agg.sample_size < 5
               /\ months[j].percentile # << >>

(* the rows that a computation from the present rosters stores *)
RowsFromRosters(company_id, month) ==
    {IF pilot_data = {} THEN {} ELSE metrics_rows(company_id, month, pilot_data) :
         pilot_data \in pilot_data_choices(db_rosters, db_analyses, company_id, month)}

(* C26: after a call of compute_aggregate_metrics that completes without   *)
(* error, the rows stored for the company and month are exactly one row    *)
(* per group built from the rosters that have an analysis now, each user   *)
(* counted once, and none at all when no such roster remains.              *)
C26_MetricsReplaced ==
    Served("compute_aggregate_metrics") /\ result.logged # "warning" =>
        {row \in aggregate_metrics :
             row.company_id = args.company_id /\ row.month = args.month}
            \in RowsFromRosters(args.company_id, args.month)

-----------------------------------------------------------------------------
(***************************************************************************)
(* Company detail: company/routes.py get_company and the admin check of    *)
(* auth/dependencies.py.  A UUID is written by its canonical lower-case    *)
(* text; the companies table holds c1 and c2 throughout.                   *)
(***************************************************************************)

CompanyTable == {[id |-> "c1", name |-> "easyJet"], [id |-> "c2", name |-> "Qatar"]}

(* uuid.UUID(text): None where it raises ValueError *)
UUID(text) ==
    CASE text \in {"c1", "C1"} -> << "c1" >>
      [] text = "c2" -> << "c2" >>
      [] text = "c3" -> << "c3" >>
      [] OTHER -> << >>

(* str() of a nullable UUID column *)
str(column) == IF column = << >> THEN "None" ELSE column[1]

(* e.strip().lower() of the texts drawn *)
strip_lower(e) ==
    CASE e \in {" Boss@X ", "Boss@X", "boss@x"} -> "boss@x"
      [] e = " " -> ""
      [] OTHER -> e

(* the entries of ADMIN_EMAILS, raw being what split(",") returns *)
admin_emails_of(raw) ==
    {strip_lower(raw[i]) : i \in {j \in 1..Len(raw) : strip_lower(raw[j]) # ""}}

(* whether get_admin_user returns the user rather than raising HTTP 403 *)
get_admin_user(user, admin_emails_raw) ==
    \/ user.is_admin
    \/ user.email # "" /\ strip_lower(user.email) \in admin_emails_of(admin_emails_raw)

get_company(company_id, user, db, table) ==
    LET id == UUID(company_id)
        company == {c \in CompanyTable : << c.id >> = id}
        the_company == CHOOSE c \in company : TRUE
        count == Cardinality({email \in DOMAIN table : table[email].company_id = id})
    IN  IF ~db
        THEN HTTPException(503, "Database not available")
        ELSE IF id = << >>
        THEN HTTPException(500, "Internal Server Error")
        ELSE IF company = {}
        THEN HTTPException(404, "Company not found")
        ELSE IF ~user.is_admin /\ str(user.company_id) # company_id
        THEN HTTPException(403, "Not a member of this company")
        ELSE [status |-> 200, detail |-> "",
              body |-> << [id |-> str(<< the_company.id >>),
                           name |-> the_company.name,
                           member_count |-> count] >>]

(* the users table: an admin by the flag, an admin by ADMIN_EMAILS, a      *)
(* member of each company, an admin by ADMIN_EMAILS who is a member, and   *)
(* a user of no company                                                    *)
CompanyUsers ==
    [email \in {"root@x", "Boss@X", "m1@x", "m2@x", "boss@x", "o@x"} |->
        [email |-> email,
         is_active |-> TRUE,
         is_admin |-> email = "root@x",
         company_id |-> CASE email \in {"m1@x", "boss@x"} -> << "c1" >>
                          [] email = "m2@x" -> << "c2" >>
                          [] OTHER -> << >>]]

CompanyPaths == {"c1", "C1", "c2", "c3", "not-a-uuid"}

AdminEmailSettings == {<< >>, << " Boss@X ", " " >>, << "o@x", "boss@x" >>}

InitCompany ==
    /\ db_available \in BOOLEAN
    /\ users = CompanyUsers
    /\ \E email \in DOMAIN CompanyUsers, company_id \in CompanyPaths, raw \in AdminEmailSettings :
           args = [op |-> "get_company", company_id |-> company_id,
                   user |-> CompanyUsers[email], ADMIN_EMAILS |-> raw]
    /\ result = << >>
    /\ pc = "call"
    /\ refresh_tokens = << >>
    /\ issued = {}
    /\ now = 0
    /\ rotated = {}
    /\ logged_out = {}
    /\ inflight = << >>
    /\ analysis_store = {}
    /\ db_rosters = {}
    /\ db_analyses = {}
    /\ aggregate_metrics = {}
    /\ NoEngine

GetCompany ==
    /\ pc = "call"
    /\ args.op = "get_company"
    /\ pc' = "returned"
    /\ result' = get_company(args.company_id, args.user, db_available, users)
    /\ UNCHANGED << args, store_vars, auth_vars, engine_vars >>

NextCompany == GetCompany

SpecCompany == InitCompany /\ [][NextCompany]_vars

(* C22: for a company that exists, GET /api/companies/{id} returns the     *)
(* detail to every admin that get_admin_user recognises (is_admin flag or  *)
(* email listed in ADMIN_EMAILS) and to every member of the company, and   *)
(* answers 403 to every other authenticated user.                          *)
C22_CompanyDetailAccess ==
    /\ pc = "returned"
    /\ Served("get_company")
    /\ db_available
    /\ \E c \in CompanyTable : c.id = args.company_id
    => IF \/ get_admin_user(args.user, args.ADMIN_EMAILS)
          \/ args.user.company_id = << args.company_id >>
       THEN result.status = 200 /\ result.body[1].id = args.company_id
       ELSE result.status = 403


-----------------------------------------------------------------------------
(***************************************************************************)
(* The easyJet roster parser: parsers/easyjet_parser.py.                   *)
(*                                                                         *)
(* A token is a string.  What the regular expressions and the string       *)
(* methods make of a token is tabulated for the tokens that the columns    *)
(* below are made of.  The overnight arrow (U+2193) is written "v" and the *)
(* continuation arrow (U+2192) ">".  A date is a day number and a UTC time *)
(* is in minutes since day 0; the UTC offsets are those of September, so   *)
(* no local time is ambiguous.                                             *)
(***************************************************************************)

NON_DUTY_CODES == {"D/O", "LVE", "PSBL", "OFF", "REST", "DO"}

OFFICE_CODES == {"OFC4", "OFC8"}

SKIP_TOKENS == {"M", "Delay", "F", "D", ""}

OVERNIGHT_ARROW == "v"

CONTINUATION_ARROW == ">"

(* _clean: zero-width spaces and surrounding blanks removed *)
clean(s) ==
    CASE s = " EJU7057 " -> "EJU7057"
      [] s = " " -> ""
      [] OTHER -> s

(* str.upper(): the tokens are in upper case but for Delay *)
upper(s) == IF s = "Delay" THEN "DELAY" ELSE s

(* the prefix * removed, upper case *)
strip_star(code) == IF code = "*AGP" THEN "AGP" ELSE upper(code)

clean_airport(code) == strip_star(clean(code))

(* _FLIGHT_NUM_RE or _FLIGHT_NUM_BROAD_RE matches *)
is_flight_number(tok) ==
    tok \in {"EJU7053", "EJU7054", "EJU7057", "EJU7058", "EJU8001", "8072"}

(* _AIRPORT_RE matches: three capital letters *)
airport_re(code) == code \in {"AGP", "GVA", "NCE", "LGW", "ATH", "XXX", "OFF", "LVE"}

(* _AIRCRAFT_RE: the type in the brackets, None where it does not match *)
aircraft_re(tok) ==
    CASE tok = "[319]" -> << "319" >>
      [] tok = "[320]" -> << "320" >>
      [] OTHER -> << >>

(* the minutes after midnight of the times HH:MM that occur *)
minutes_of(time_str) ==
    CASE time_str = "00:11" -> 11
      [] time_str = "00:15" -> 15
      [] time_str = "00:40" -> 40
      [] time_str = "00:45" -> 45
      [] time_str = "01:30" -> 90
      [] time_str = "05:30" -> 330
      [] time_str = "07:30" -> 450
      [] time_str = "07:50" -> 470
      [] time_str = "09:00" -> 540
      [] time_str = "09:30" -> 570
      [] time_str = "09:55" -> 595
      [] time_str = "10:25" -> 625
      [] time_str = "10:55" -> 655
      [] time_str = "12:55" -> 775
      [] time_str = "13:00" -> 780
      [] time_str = "13:25" -> 805
      [] time_str = "13:30" -> 810
      [] time_str = "17:00" -> 1020
      [] time_str = "17:30" -> 1050
      [] time_str = "19:40" -> 1180
      [] time_str = "21:30" -> 1290
      [] time_str = "21:53" -> 1313
      [] time_str = "22:30" -> 1350
      [] time_str = "23:30" -> 1410

TimeTexts ==
    {"00:11", "00:15", "00:40", "00:45", "01:30", "05:30", "07:30", "07:50", "09:00",
     "09:30", "09:55", "10:25", "10:55", "12:55", "13:00", "13:25", "13:30", "17:00",
     "17:30", "19:40", "21:30", "21:53", "22:30", "23:30"}

(* strftime('%H:%M') *)
strftime(minutes) == CHOOSE time_str \in TimeTexts : minutes_of(time_str) = minutes % 1440

(* _TIME_RE: HH:MM without the prefix A, None where it does not match *)
time_re(s) ==
    CASE s = "A21:53" -> << "21:53" >>
      [] s \in TimeTexts -> << s >>
      [] OTHER -> << >>

parse_time_str(raw) == time_re(clean(raw))

(* the IANA zone that airportsdata has for a code, UTC for a code it lacks *)
timezone_of(code) ==
    CASE code = "AGP" -> "Europe/Madrid"
      [] code = "GVA" -> "Europe/Zurich"
      [] code = "NCE" -> "Europe/Paris"
      [] code = "LGW" -> "Europe/London"
      [] code = "ATH" -> "Europe/Athens"
      [] OTHER -> "UTC"

Airport(code) == [code |-> code, timezone |-> timezone_of(code)]

get_airport(code) == Airport(clean_airport(code))

(* the UTC offset of a zone in September, in minutes *)
utcoffset(tz) ==
    CASE tz \in {"Europe/Madrid", "Europe/Zurich", "Europe/Paris"} -> 120
      [] tz = "Europe/London" -> 60
      [] tz = "Europe/Athens" -> 180
      [] OTHER -> 0

localize_to_utc(time_str, col_date, airport_tz, day_offset) ==
    (col_date + day_offset) * 1440 + minutes_of(time_str) - utcoffset(airport_tz)

Least(indices) == CHOOSE i \in indices : \A j \in indices : i <= j

Greatest(indices) == CHOOSE i \in indices : \A j \in indices : j <= i

cleaned_tokens(lines) == [i \in 1..Len(lines) |-> clean(lines[i])]

(* _tokenize_cell: the lines of a cell, cleaned, without the skip tokens *)
tokenize_cell(cell_text) ==
    cleaned_tokens(SelectSeq(cell_text, LAMBDA line : clean(line) \notin SKIP_TOKENS))

(* the pre-processing of _parse_flight_duty: the tokens with the day       *)
(* offset that an overnight arrow gives to the time that follows it        *)
RECURSIVE mark_offsets(_, _)
mark_token(t, is_time, rest, advance_day) ==
    IF t \in SKIP_TOKENS
    THEN mark_offsets(rest, advance_day)
    ELSE IF t = OVERNIGHT_ARROW
    THEN mark_offsets(rest, TRUE)
    ELSE << [tok |-> t, off |-> IF advance_day /\ is_time THEN 1 ELSE 0] >>
         \o mark_offsets(rest, advance_day /\ ~is_time)

mark_offsets(raw_tokens, advance_day) ==
    IF raw_tokens = << >>
    THEN << >>
    ELSE mark_token(clean(Head(raw_tokens)), parse_time_str(Head(raw_tokens)) # << >>,
                    Tail(raw_tokens), advance_day)

FlightSegment(flight_number, departure_airport, arrival_airport, scheduled_departure_utc, scheduled_arrival_utc, aircraft_type) ==
    [flight_number |-> flight_number,
     departure_airport |-> departure_airport,
     arrival_airport |-> arrival_airport,
     scheduled_departure_utc |-> scheduled_departure_utc,
     scheduled_arrival_utc |-> scheduled_arrival_utc,
     aircraft_type |-> aircraft_type]

(* the safety net of _extract_segments: an arrival that is not after the   *)
(* departure is read a day later                                           *)
safety_net(dep_utc, arr_utc, arr_next_day) == IF arr_utc <= dep_utc THEN arr_next_day ELSE arr_utc

timed_segment(flight_num, dep_airport, arr_airport, dep_time_str, arr_time_str, std_off, sta_off, col_date, aircraft_type) ==
    FlightSegment(flight_num, dep_airport, arr_airport,
                  localize_to_utc(dep_time_str, col_date, dep_airport.timezone, std_off),
                  safety_net(localize_to_utc(dep_time_str, col_date, dep_airport.timezone, std_off),
                             localize_to_utc(arr_time_str, col_date, arr_airport.timezone, sta_off),
                             localize_to_utc(arr_time_str, col_date, arr_airport.timezone, sta_off + 1)),
                  aircraft_type)

(* the pattern test of _extract_segments *)
checked_segment(flight_num, dep_code, arr_code, dep_time_str, arr_time_str, std_off, sta_off, col_date, aircraft_type) ==
    IF ~(/\ airport_re(dep_code) /\ dep_time_str # << >>
         /\ airport_re(arr_code) /\ arr_time_str # << >>)
    THEN << >>
    ELSE << timed_segment(flight_num, get_airport(dep_code), get_airport(arr_code),
                          dep_time_str[1], arr_time_str[1], std_off, sta_off, col_date,
                          aircraft_type) >>

(* the segment that starts at the flight number at index i (from 0), None  *)
(* where the tokens after it do not have the pattern: the token order is   *)
(* flight number, departure time, departure airport, arrival airport,      *)
(* arrival time, and the aircraft type if the next token has its form      *)
segment_at(tokens, col_date, i) ==
    checked_segment(tokens[i + 1].tok,
                    clean_airport(tokens[i + 3].tok), clean_airport(tokens[i + 4].tok),
                    parse_time_str(tokens[i + 2].tok), parse_time_str(tokens[i + 5].tok),
                    tokens[i + 2].off, tokens[i + 5].off, col_date,
                    IF i + 5 < Len(tokens) THEN aircraft_re(tokens[i + 6].tok) ELSE << >>)

consumed_by(seg) == IF seg.aircraft_type # << >> THEN 6 ELSE 5

(* _extract_segments from index i (from 0) on *)
RECURSIVE extract_segments(_, _, _, _, _)
extend_segments(tokens, col_date, i, segments, last_seg_end, seg) ==
    IF seg = << >>
    THEN extract_segments(tokens, col_date, i + 1, segments, last_seg_end)
    ELSE extract_segments(tokens, col_date, i + consumed_by(seg[1]),
                          Append(segments, seg[1]), i + consumed_by(seg[1]))

extract_segments(tokens, col_date, i, segments, last_seg_end) ==
    IF ~(i < Len(tokens))
    THEN [segments |-> segments, end_idx |-> last_seg_end]
    ELSE IF ~is_flight_number(tokens[i + 1].tok) \/ i + 4 >= Len(tokens)
    THEN extract_segments(tokens, col_date, i + 1, segments, last_seg_end)
    ELSE extend_segments(tokens, col_date, i, segments, last_seg_end,
                         segment_at(tokens, col_date, i))

time_indices(tokens, start) ==
    {i \in (start + 1)..Len(tokens) : parse_time_str(tokens[i].tok) # << >>}

last_of(tokens, indices) == IF indices = {} THEN << >> ELSE << tokens[Greatest(indices)] >>

(* the last time token at index start (from 0) or later *)
last_time_from(tokens, start) == last_of(tokens, time_indices(tokens, start))

report_among(tokens, indices) ==
    IF indices = {} THEN << >>
    ELSE IF is_flight_number(tokens[Least(indices)].tok) THEN << >>
    ELSE << Least(indices) >>

(* the index (from 1) of the report time: the first time token, if no      *)
(* flight number comes before it                                           *)
report_index(tokens) ==
    report_among(tokens, {i \in 1..Len(tokens) :
                             is_flight_number(tokens[i].tok)
                             \/ parse_time_str(tokens[i].tok) # << >>})

ParsedDuty(duty_id, date, report_time_utc, release_time_utc, segments, duty_type) ==
    [duty_id |-> duty_id,
     date |-> date,
     report_time_utc |-> report_time_utc,
     release_time_utc |-> release_time_utc,
     segments |-> segments,
     duty_type |-> duty_type]

(* the release must be after the report: an hour after it if it is not *)
after_report(report_time_utc, release_time_utc) ==
    IF release_time_utc <= report_time_utc THEN report_time_utc + 60 ELSE release_time_utc

(* the release of a flight duty: the written one, 30 minutes after the     *)
(* last landing if there is none or it is before the last landing          *)
flight_release(last_arrival_utc, written) ==
    IF written = << >> THEN last_arrival_utc + 30
    ELSE IF written[1] < last_arrival_utc THEN last_arrival_utc + 30
    ELSE written[1]

written_release(found, col_date, arr_tz) ==
    IF found = << >> THEN << >>
    ELSE << localize_to_utc(parse_time_str(found[1].tok)[1], col_date, arr_tz, found[1].off) >>

flight_duty(col_date, segments, report_time_utc, written) ==
    << ParsedDuty(<< "D", col_date, segments[1].flight_number >>, col_date, report_time_utc,
                  after_report(report_time_utc,
                               flight_release(segments[Len(segments)].scheduled_arrival_utc,
                                              written)),
                  segments, "FLIGHT") >>

(* the duty of the segments extracted; the report time is the first        *)
(* departure where the column has none                                     *)
duty_of_segments(col_date, tokens, report_time_str, segments, end_idx) ==
    IF segments = << >>
    THEN << >>
    ELSE flight_duty(col_date, segments,
                     IF report_time_str = << >>
                     THEN segments[1].scheduled_departure_utc
                     ELSE localize_to_utc(report_time_str[1], col_date,
                                          segments[1].departure_airport.timezone, 0),
                     written_release(last_time_from(tokens, end_idx), col_date,
                                     segments[Len(segments)].arrival_airport.timezone))

duty_of_extracted(col_date, tokens, report_time_str, extracted) ==
    duty_of_segments(col_date, tokens, report_time_str, extracted.segments, extracted.end_idx)

reported_duty(col_date, tokens, report_idx) ==
    IF report_idx = << >>
    THEN << >>
    ELSE duty_of_extracted(col_date, tokens, parse_time_str(tokens[report_idx[1]].tok),
                           extract_segments(tokens, col_date, report_idx[1], << >>,
                                            report_idx[1]))

marked_flight_duty(col_date, tokens) ==
    IF tokens = << >>
    THEN << >>
    ELSE IF is_flight_number(tokens[1].tok)
    THEN duty_of_extracted(col_date, tokens, << >>,
                           extract_segments(tokens, col_date, 0, << >>, 0))
    ELSE reported_duty(col_date, tokens, report_index(tokens))

parse_flight_duty(col_date, raw_tokens) ==
    marked_flight_duty(col_date, mark_offsets(raw_tokens, FALSE))

home_timezone == "Europe/Madrid"

office_between(col_date, code, report_utc, release_utc) ==
    << ParsedDuty(<< "D", col_date, code >>, col_date, report_utc,
                  IF release_utc <= report_utc THEN release_utc + 1440 ELSE release_utc,
                  << >>, "GROUND_TRAINING") >>

office_from(col_date, code, report_str, release_str) ==
    office_between(col_date, code,
                   localize_to_utc(report_str, col_date, home_timezone, 0),
                   localize_to_utc(release_str, col_date, home_timezone, 0))

(* the fallback for fewer than two times: 4 or 8 hours from the time       *)
(* given, or from 09:00                                                    *)
office_default(col_date, code, start) ==
    office_from(col_date, code, start,
                strftime(minutes_of(start) + 60 * (IF code = "OFC4" THEN 4 ELSE 8)))

office_of_times(col_date, code, times) ==
    IF Len(times) < 2
    THEN office_default(col_date, code, IF times # << >> THEN times[1] ELSE "09:00")
    ELSE office_from(col_date, code, times[1], times[Len(times)])

times_of(found) == [i \in 1..Len(found) |-> parse_time_str(found[i])[1]]

parse_office_duty(col_date, raw_tokens, code) ==
    office_of_times(col_date, code,
                    times_of(SelectSeq(raw_tokens, LAMBDA tok : parse_time_str(tok) # << >>)))

time_count(group) == Len(SelectSeq(group, LAMBDA t : parse_time_str(t) # << >>))

(* _split_duty_groups from token i (from 1) on *)
RECURSIVE split_duty_groups(_, _, _, _)
split_at(tokens, i, groups, in_office, office_starts, flight_starts) ==
    IF office_starts \/ flight_starts
    THEN split_duty_groups(tokens, i + 1, Append(groups, << tokens[i] >>), office_starts)
    ELSE split_duty_groups(tokens, i + 1,
                           [groups EXCEPT ![Len(groups)] = Append(@, tokens[i])], in_office)

split_duty_groups(tokens, i, groups, in_office) ==
    IF i > Len(tokens)
    THEN groups
    ELSE split_at(tokens, i, groups, in_office,
                  i > 1 /\ upper(clean(tokens[i])) \in OFFICE_CODES /\ ~in_office,
                  /\ i > 1
                  /\ ~(upper(clean(tokens[i])) \in OFFICE_CODES /\ ~in_office)
                  /\ is_flight_number(tokens[i])
                  /\ in_office
                  /\ time_count(groups[Len(groups)]) >= 2)

duty_of_group(col_date, group, first_tok) ==
    IF first_tok \in NON_DUTY_CODES THEN << >>
    ELSE IF first_tok \in OFFICE_CODES THEN parse_office_duty(col_date, group, first_tok)
    ELSE parse_flight_duty(col_date, group)

(* the duties of the groups of a column *)
RECURSIVE duties_of_groups(_, _)
duties_of_groups(col_date, duty_groups) ==
    IF duty_groups = << >>
    THEN << >>
    ELSE (IF Head(duty_groups) = << >>
          THEN << >>
          ELSE duty_of_group(col_date, Head(duty_groups), upper(clean(Head(duty_groups)[1]))))
         \o duties_of_groups(col_date, Tail(duty_groups))

duties_of_column(col_date, tokens_clean, has_continuation) ==
    IF tokens_clean = << >>
    THEN [duties |-> << >>, has_continuation |-> has_continuation]
    ELSE IF upper(clean(tokens_clean[1])) \in NON_DUTY_CODES
    THEN [duties |-> << >>, has_continuation |-> FALSE]
    ELSE [duties |-> duties_of_groups(col_date,
                         split_duty_groups(tokens_clean, 1, << << >> >>,
                                           upper(tokens_clean[1]) \in OFFICE_CODES)),
          has_continuation |-> has_continuation]

parse_column_to_duties(col_date, raw_tokens) ==
    IF raw_tokens = << >>
    THEN [duties |-> << >>, has_continuation |-> FALSE]
    ELSE duties_of_column(col_date,
                          SelectSeq(raw_tokens, LAMBDA t : t # CONTINUATION_ARROW),
                          \E i \in 1..Len(raw_tokens) : raw_tokens[i] = CONTINUATION_ARROW)

first_or_none(duties) == IF duties = << >> THEN << >> ELSE << duties[1] >>

(* the legacy wrapper: the first duty of the column, or None *)
parse_column_to_duty(col_date, raw_tokens) ==
    first_or_none(parse_column_to_duties(col_date, raw_tokens).duties)

(* the loop of _extract_incomplete_segment: backwards from index j (from 0) *)
(* down to, and without, index stop                                         *)
RECURSIVE walk_back(_, _, _, _)
walk_token(raw_tokens, j, stop, found, tok) ==
    IF airport_re(clean_airport(tok)) /\ found.dep_airport_code = << >>
    THEN walk_back(raw_tokens, j - 1, stop,
                   [found EXCEPT !.dep_airport_code = << clean_airport(tok) >>])
    ELSE IF parse_time_str(tok) # << >> /\ found.std_str = << >>
    THEN walk_back(raw_tokens, j - 1, stop, [found EXCEPT !.std_str = parse_time_str(tok)])
    ELSE IF is_flight_number(tok) /\ found.flight_num = << >>
    THEN [found EXCEPT !.flight_num = << tok >>]
    ELSE walk_back(raw_tokens, j - 1, stop, found)

walk_back(raw_tokens, j, stop, found) ==
    IF j <= stop THEN found ELSE walk_token(raw_tokens, j, stop, found, clean(raw_tokens[j + 1]))

incomplete_of(found) ==
    IF found.flight_num # << >> /\ found.std_str # << >> /\ found.dep_airport_code # << >>
    THEN << [flight_num |-> found.flight_num[1], std_str |-> found.std_str[1],
             dep_airport_code |-> found.dep_airport_code[1]] >>
    ELSE << >>

incomplete_before(raw_tokens, arrow_idx) ==
    IF arrow_idx < 2
    THEN << >>
    ELSE incomplete_of(walk_back(raw_tokens, arrow_idx - 1,
                                 IF arrow_idx - 4 > -1 THEN arrow_idx - 4 ELSE -1,
                                 [flight_num |-> << >>, std_str |-> << >>,
                                  dep_airport_code |-> << >>]))

first_arrow(raw_tokens, arrows) ==
    IF arrows = {} THEN << >> ELSE incomplete_before(raw_tokens, Least(arrows) - 1)

extract_incomplete_segment(raw_tokens) ==
    first_arrow(raw_tokens, {i \in 1..Len(raw_tokens) : raw_tokens[i] = CONTINUATION_ARROW})

RECURSIVE filter_delay_tokens(_, _)
filter_delay_tokens(tokens, skip_next) ==
    IF tokens = << >> THEN << >>
    ELSE IF skip_next THEN filter_delay_tokens(Tail(tokens), FALSE)
    ELSE IF upper(clean(Head(tokens))) = "DELAY" THEN filter_delay_tokens(Tail(tokens), TRUE)
    ELSE << Head(tokens) >> \o filter_delay_tokens(Tail(tokens), FALSE)

(* the first loop of _parse_continuation_column, from token i (from 1) on: *)
(* the arrival airport, the arrival time and the aircraft type             *)
RECURSIVE arrival_info(_, _, _)
arrival_token(tokens, i, found, cleaned, ts, am) ==
    IF airport_re(cleaned) /\ found.arr_airport_code = << >>
    THEN arrival_info(tokens, i + 1,
                      [found EXCEPT !.arr_airport_code = << cleaned >>, !.consumed = i])
    ELSE IF ts # << >> /\ found.arr_airport_code # << >> /\ found.arr_time_str = << >>
    THEN arrival_info(tokens, i + 1, [found EXCEPT !.arr_time_str = ts, !.consumed = i])
    ELSE IF am # << >> /\ found.arr_airport_code # << >>
    THEN arrival_info(tokens, i + 1, [found EXCEPT !.arr_aircraft = am, !.consumed = i])
    ELSE IF found.arr_airport_code # << >> /\ found.arr_time_str # << >>
    THEN found
    ELSE arrival_info(tokens, i + 1, found)

arrival_info(tokens, i, found) ==
    IF i > Len(tokens)
    THEN found
    ELSE arrival_token(tokens, i, found, clean_airport(tokens[i]), parse_time_str(tokens[i]),
                       aircraft_re(tokens[i]))

(* the segments of the duty continued: the incomplete segment completed    *)
(* and appended, or the arrival of the last segment replaced               *)
completed_segments(segments, incomplete_seg, prev_col_date, dep_airport, arr_airport, arr_utc, arr_aircraft) ==
    IF incomplete_seg # << >>
    THEN Append(segments,
                FlightSegment(incomplete_seg[1].flight_num, dep_airport, arr_airport,
                              localize_to_utc(incomplete_seg[1].std_str, prev_col_date,
                                              dep_airport.timezone, 0),
                              arr_utc, arr_aircraft))
    ELSE IF segments # << >>
    THEN [segments EXCEPT ![Len(segments)] =
             [@ EXCEPT !.arrival_airport = arr_airport,
                       !.scheduled_arrival_utc = arr_utc,
                       !.aircraft_type = IF arr_aircraft # << >> THEN arr_aircraft ELSE @]]
    ELSE segments

first_time(remaining_tokens, times) ==
    IF times = {} THEN << >> ELSE parse_time_str(remaining_tokens[Least(times)])

(* the release time of the continuation: the first time after the arrival, *)
(* none if an office code follows                                          *)
continuation_release(remaining_tokens) ==
    IF \E i \in 1..Len(remaining_tokens) : upper(remaining_tokens[i]) \in OFFICE_CODES
    THEN << >>
    ELSE first_time(remaining_tokens,
                    {i \in 1..Len(remaining_tokens) :
                        parse_time_str(remaining_tokens[i]) # << >>})

released(release_time_str, col_date, arr_tz, arr_utc) ==
    IF release_time_str # << >>
    THEN localize_to_utc(release_time_str[1], col_date, arr_tz, 0)
    ELSE arr_utc + 30

complete_duty(prev_duty, incomplete_seg, prev_col_date, dep_airport, arr_airport, arr_utc, arr_aircraft, release_time_str, col_date) ==
    [prev_duty EXCEPT
        !.segments = completed_segments(@, incomplete_seg, prev_col_date, dep_airport,
                                        arr_airport, arr_utc, arr_aircraft),
        !.release_time_utc = after_report(prev_duty.report_time_utc,
                                          released(release_time_str, col_date,
                                                   arr_airport.timezone, arr_utc))]

complete_arrival(prev_duty, incomplete_seg, prev_col_date, arr_airport, arr_time_str, arr_aircraft, release_time_str, col_date) ==
    complete_duty(prev_duty, incomplete_seg, prev_col_date,
                  IF incomplete_seg # << >>
                  THEN get_airport(incomplete_seg[1].dep_airport_code)
                  ELSE << >>,
                  arr_airport,
                  localize_to_utc(arr_time_str, col_date, arr_airport.timezone, 0),
                  arr_aircraft, release_time_str, col_date)

further_duties(col_date, remaining_filtered) ==
    IF remaining_filtered = << >>
    THEN << >>
    ELSE parse_column_to_duties(col_date, remaining_filtered).duties

continued(col_date, continuation, duties, found, remaining_tokens) ==
    (IF found.arr_airport_code # << >> /\ found.arr_time_str # << >>
     THEN [duties EXCEPT ![continuation.duty] =
              complete_arrival(@, continuation.incomplete_segment, continuation.col_date,
                               get_airport(found.arr_airport_code[1]),
                               found.arr_time_str[1], found.arr_aircraft,
                               continuation_release(remaining_tokens), col_date)]
     ELSE duties)
    \o further_duties(col_date, filter_delay_tokens(remaining_tokens, FALSE))

continued_from(col_date, continuation, duties, tokens, found) ==
    continued(col_date, continuation, duties, found,
              SubSeq(tokens, found.consumed + 1, Len(tokens)))

continuation_tokens(col_date, continuation, duties, tokens) ==
    IF tokens = << >>
    THEN duties
    ELSE continued_from(col_date, continuation, duties, tokens,
                        arrival_info(tokens, 1,
                                     [arr_airport_code |-> << >>, arr_time_str |-> << >>,
                                      arr_aircraft |-> << >>, consumed |-> 0]))

(* _parse_continuation_column: the duties with the duty of the continuation *)
(* completed in place, followed by the further duties of the column         *)
parse_continuation_column(col_date, raw_tokens, continuation, duties) ==
    continuation_tokens(col_date, continuation, duties,
                        SelectSeq(raw_tokens, LAMBDA t : t # OVERNIGHT_ARROW))

pending_after(column, extended, col_date, raw_tokens) ==
    IF column.has_continuation /\ extended # << >>
    THEN << [duty |-> Len(extended),
             col_date |-> col_date,
             incomplete_segment |-> extract_incomplete_segment(raw_tokens)] >>
    ELSE << >>

(* the loop of _parse_grid_to_duties over the date columns, from column    *)
(* dc_idx (from 1) on                                                      *)
RECURSIVE parse_grid_to_duties(_, _, _, _)
parse_other_column(date_columns, dc_idx, duties, col_date, raw_tokens, column) ==
    parse_grid_to_duties(date_columns, dc_idx + 1, duties \o column.duties,
                         pending_after(column, duties \o column.duties, col_date, raw_tokens))

parse_column(date_columns, dc_idx, duties, pending_continuation, col_date, raw_tokens) ==
    IF raw_tokens = << >>
    THEN parse_grid_to_duties(date_columns, dc_idx + 1, duties, << >>)
    ELSE IF raw_tokens[1] = OVERNIGHT_ARROW /\ pending_continuation # << >>
    THEN parse_grid_to_duties(date_columns, dc_idx + 1,
                              parse_continuation_column(col_date, raw_tokens,
                                                        pending_continuation[1], duties),
                              << >>)
    ELSE parse_other_column(date_columns, dc_idx, duties, col_date, raw_tokens,
                            parse_column_to_duties(col_date, raw_tokens))

parse_grid_to_duties(date_columns, dc_idx, duties, pending_continuation) ==
    IF dc_idx > Len(date_columns)
    THEN duties
    ELSE parse_column(date_columns, dc_idx, duties, pending_continuation,
                      date_columns[dc_idx].date,
                      tokenize_cell(date_columns[dc_idx].cell_text))

-----------------------------------------------------------------------------
(* The columns parsed.                                                     *)

MaxFlights == 2
MaxColumns == 2

(* the date of the first column, as a day number *)
FirstDate == 17

(* flights that connect: flight number, departure airport and time,        *)
(* arrival airport and time, and the release time after the flight         *)
Legs ==
    << [flight |-> "EJU7057", dep |-> "AGP", std |-> "07:50", arr |-> "GVA", sta |-> "09:55", release |-> "10:25"],
       [flight |-> "EJU7058", dep |-> "GVA", std |-> "10:55", arr |-> "AGP", sta |-> "12:55", release |-> "13:25"],
       [flight |-> "EJU7053", dep |-> "AGP", std |-> "13:30", arr |-> "NCE", sta |-> "17:00", release |-> "17:30"] >>

(* the tokens of a flight, the airport before the time or the time before  *)
(* the airport                                                             *)
LegTokens(leg, airport_first, aircraft) ==
    (IF airport_first
     THEN << leg.flight, leg.dep, leg.std, leg.arr, leg.sta >>
     ELSE << leg.flight, leg.std, leg.dep, leg.arr, leg.sta >>)
    \o (IF aircraft THEN << "[319]" >> ELSE << >>)

RECURSIVE FlightTokens(_, _, _, _)
FlightTokens(k, n, airport_first, aircraft) ==
    IF k > n THEN << >>
    ELSE LegTokens(Legs[k], airport_first, aircraft)
         \o FlightTokens(k + 1, n, airport_first, aircraft)

(* a column of n flights: report time, the flights, release time *)
FlightColumn(n, airport_first, aircraft) ==
    << "07:30" >> \o FlightTokens(1, n, airport_first, aircraft) \o << Legs[n].release >>

FlightColumns ==
    {FlightColumn(n, airport_first, aircraft) :
        n \in 1..MaxFlights, airport_first \in BOOLEAN, aircraft \in BOOLEAN}

(* cells of the grid, as the lines of their text *)
Cells ==
    {<< >>,
     << "D/O" >>,
     << "OFC4" >>,
     << "OFC8", "09:30", "17:30" >>,
     << "OFC8", "17:30", "01:30" >>,
     << "OFC4", "09:00", "13:00", "EJU7053", "13:30", "AGP", "NCE", "17:00", "17:30" >>,
     << "07:30", " EJU7057 ", "07:50", "*AGP", "GVA", "09:55", "[319]", "M", "10:25" >>,
     << "21:30", "EJU7054", "21:53", "NCE", "AGP", "v", "00:11", "00:40" >>,
     << "17:00", "EJU7053", "17:30", "AGP", "NCE", "19:40", "[319]", "EJU7054", "A21:53", "NCE", ">" >>,
     << "21:30", "EJU7054", "A21:53", "NCE", ">" >>,
     << "v", "AGP", "00:11", "[319]", "00:40" >>,
     << "v", "AGP", "00:11", "Delay", "00:15", "00:45", "OFC8", "13:30", "21:30" >>,
     << "22:30", "EJU8001", "23:30", "LGW", "ATH", "00:15", "00:45" >>,
     << "07:30", "EJU7057", "07:50", "AGP", "LGW", "09:55", "EJU8001", "23:30", "LGW", ">" >>,
     << "v", "ATH", "00:15", "00:45" >>}
    \cup FlightColumns

RECURSIVE Grids(_)
Grids(n) ==
    IF n = 0 THEN {<< >>}
    ELSE {Append(grid, cell) : grid \in Grids(n - 1), cell \in Cells}

(* the date columns of the grid: consecutive dates, each with its cell *)
DateColumns(grid) == [i \in 1..Len(grid) |-> [date |-> FirstDate + i - 1, cell_text |-> grid[i]]]

ParserFrame == UNCHANGED << store_vars, auth_vars, engine_vars >>

InitParser ==
    /\ NoStore
    /\ NoAuth
    /\ NoEngine
    /\ pc = "parsing"
    /\ result = << >>
    /\ \/ \E raw_tokens \in Cells :
              args = [op |-> "parse_column_to_duty", col_date |-> FirstDate,
                      raw_tokens |-> raw_tokens]
       \/ \E n \in 1..MaxColumns : \E grid \in Grids(n) :
              args = [op |-> "parse_grid_to_duties", date_columns |-> DateColumns(grid)]

(* EasyJetParser._parse_column_to_duty *)
ParseColumnToDuty ==
    /\ pc = "parsing"
    /\ args.op = "parse_column_to_duty"
    /\ result' = parse_column_to_duty(args.col_date, args.raw_tokens)
    /\ pc' = "done"
    /\ UNCHANGED args
    /\ ParserFrame

(* EasyJetParser._parse_grid_to_duties, from the date columns on *)
ParseGridToDuties ==
    /\ pc = "parsing"
    /\ args.op = "parse_grid_to_duties"
    /\ result' = parse_grid_to_duties(args.date_columns, 1, << >>, << >>)
    /\ pc' = "done"
    /\ UNCHANGED args
    /\ ParserFrame

NextParser == ParseColumnToDuty \/ ParseGridToDuties

SpecParser == InitParser /\ [][NextParser]_vars

-----------------------------------------------------------------------------
(* Claims about the easyJet parser.                                        *)

Parsed(op) == pc = "done" /\ args.op = op

(* a segment is the flight of a leg *)
SegmentOf(seg, leg) ==
    /\ seg.flight_number = leg.flight
    /\ seg.departure_airport.code = leg.dep
    /\ seg.arrival_airport.code = leg.arr

(* the result is one flight duty with a segment for each of the first n    *)
(* flights, in order, consecutive segments connecting                      *)
OneDutyOf(n) ==
    /\ result # << >>
    /\ result[1].duty_type = "FLIGHT"
    /\ Len(result[1].segments) = n
    /\ \A k \in 1..n : SegmentOf(result[1].segments[k], Legs[k])
    /\ \A k \in 1..(n - 1) :
           result[1].segments[k].arrival_airport.code
               = result[1].segments[k + 1].departure_airport.code

(* C23: _parse_column_to_duty, given a column of a report time, then for   *)
(* each flight the flight number, departure airport, departure time,       *)
(* arrival airport, arrival time and optional aircraft, and a release      *)
(* time, returns one flight duty with one segment per flight, in column    *)
(* order, with the flight numbers and airports given, consecutive segments *)
(* connecting.                                                             *)
C23_AirportFirstColumnParsed ==
    Parsed("parse_column_to_duty") =>
        \A n \in 1..MaxFlights, aircraft \in BOOLEAN :
            args.raw_tokens = FlightColumn(n, TRUE, aircraft) => OneDutyOf(n)

(* the same of the columns with the departure time before the airport *)
TimeFirstColumnParsed ==
    Parsed("parse_column_to_duty") =>
        \A n \in 1..MaxFlights, aircraft \in BOOLEAN :
            args.raw_tokens = FlightColumn(n, FALSE, aircraft) => OneDutyOf(n)

TimeFirstColumnReached ==
    /\ Parsed("parse_column_to_duty")
    /\ args.raw_tokens = FlightColumn(MaxFlights, FALSE, TRUE)
    /\ OneDutyOf(MaxFlights)

(* the duties a run of the parser has produced *)
Produced ==
    IF pc # "done" THEN {}
    ELSE {result[i] : i \in 1..Len(result)}

WellOrdered(duty) ==
    /\ duty.report_time_utc < duty.release_time_utc
    /\ \A k \in 1..Len(duty.segments) :
           duty.segments[k].scheduled_departure_utc < duty.segments[k].scheduled_arrival_utc

(* C24: every duty the easyJet parser produces (flight duty, office duty,  *)
(* or a duty completed across columns by a continuation arrow) has its     *)
(* report time strictly before its release time, and every flight segment  *)
(* of it has its departure strictly before its arrival.                    *)
C24_DutiesWellOrdered == \A duty \in Produced : WellOrdered(duty)

(* the report is always before the release *)
ReportBeforeRelease == \A duty \in Produced : duty.report_time_utc < duty.release_time_utc

ContinuationCompleted ==
    /\ Parsed("parse_grid_to_duties")
    /\ \E i \in 1..Len(result) :
           /\ result[i].date = FirstDate
           /\ \E k \in 1..Len(result[i].segments) :
                  result[i].segments[k].scheduled_arrival_utc > (FirstDate + 1) * 1440 - 120

-----------------------------------------------------------------------------
(***************************************************************************)
(* The rest-day sleep of a response: _build_rest_days_sleep of             *)
(* api/api_server.py.                                                      *)
(*                                                                         *)
(* sleep_strategies is a dict: here the sequence of its items in the       *)
(* order of the dict, a key being its prefix ("rest_", "post_duty_" or     *)
(* none) and the rest of it, a date a day number, and an ISO timestamp a   *)
(* tuple of date and time, the empty string being << >>.                   *)
(***************************************************************************)

startswith(key, prefix) == key.prefix = prefix

(* iso[:10] and iso.split('T')[0]: the date of a timestamp *)
iso_date(iso) == iso[1]

(* the dates that the blocks of a ULR pre-duty strategy cover: the start   *)
(* date of each block, and its end date where that is another              *)
covered_dates(sleep_blocks) ==
    {iso_date(sleep_blocks[i].sleep_start_iso) :
        i \in {j \in 1..Len(sleep_blocks) : sleep_blocks[j].sleep_start_iso # << >>}}
    \cup {iso_date(sleep_blocks[i].sleep_end_iso) :
            i \in {j \in 1..Len(sleep_blocks) : sleep_blocks[j].sleep_end_iso # << >>}}

(* ulr_duty_covered_dates: for each key without the prefix rest_ whose     *)
(* strategy is ulr_pre_duty, the dates covered                             *)
ulr_duty_covered_dates(sleep_strategies) ==
    [i \in {j \in 1..Len(sleep_strategies) :
               /\ ~startswith(sleep_strategies[j].key, "rest_")
               /\ sleep_strategies[j].data.strategy_type = "ulr_pre_duty"}
        |-> covered_dates(sleep_strategies[i].data.sleep_blocks)]

(* any(rest_date_str in covered for covered in the values) *)
suppressed(rest_date_str, covered_by_duty) ==
    \E i \in DOMAIN covered_by_duty : rest_date_str \in covered_by_duty[i]

RestDaySleepResponse(date, data) ==
    [date |-> date,
     sleep_blocks |-> data.sleep_blocks,
     strategy_type |-> data.strategy_type,
     explanation |-> data.explanation]

(* what the second loop appends for an item *)
rest_day_of(key, data, covered_by_duty) ==
    IF startswith(key, "rest_")
    THEN IF suppressed(key.name, covered_by_duty)
         THEN << >>
         ELSE << RestDaySleepResponse(key.name, data) >>
    ELSE IF startswith(key, "post_duty_") \/ data.strategy_type = "ulr_pre_duty"
    THEN IF data.sleep_blocks # << >> /\ data.sleep_blocks[1].sleep_start_iso # << >>
         THEN << RestDaySleepResponse(iso_date(data.sleep_blocks[1].sleep_start_iso), data) >>
         ELSE << >>
    ELSE << >>

RECURSIVE rest_days_from(_, _, _)
rest_days_from(sleep_strategies, i, covered_by_duty) ==
    IF i > Len(sleep_strategies)
    THEN << >>
    ELSE rest_day_of(sleep_strategies[i].key, sleep_strategies[i].data, covered_by_duty)
         \o rest_days_from(sleep_strategies, i + 1, covered_by_duty)

build_rest_days_sleep(sleep_strategies) ==
    rest_days_from(sleep_strategies, 1, ulr_duty_covered_dates(sleep_strategies))

-----------------------------------------------------------------------------
(* The strategies built from.                                              *)

MaxDate == 2
RestDates == 1..MaxDate
UlrDuties == {"D1", "D2"}

Block(start_date, end_date) ==
    [sleep_start_iso |-> << start_date, "23:00" >>, sleep_end_iso |-> << end_date, "07:00" >>]

UndatedBlock == [sleep_start_iso |-> << >>, sleep_end_iso |-> << >>]

(* the blocks of a strategy: none, one without timestamps, or one with the *)
(* dates of its start and of its end                                       *)
BlockChoices ==
    {<< >>, << UndatedBlock >>}
    \cup {<< Block(d, e) >> : d \in RestDates, e \in RestDates}

Item(prefix, name, strategy_type, sleep_blocks) ==
    [key |-> [prefix |-> prefix, name |-> name],
     data |-> [strategy_type |-> strategy_type, sleep_blocks |-> sleep_blocks,
               explanation |-> << prefix, name >>]]

(* the gap-fill entries: for each date none, or one *)
RECURSIVE RestItems(_, _)
RestItems(d, present) ==
    IF d > MaxDate THEN << >>
    ELSE (IF d \in present THEN << Item("rest_", d, "recovery", << Block(d, d) >>) >> ELSE << >>)
         \o RestItems(d + 1, present)

(* the duty the roster makes responsible for the gap a date lies in: the   *)
(* next duty after the gap                                                 *)
Responsibilities == [RestDates -> UlrDuties]

BuildFrame == UNCHANGED << store_vars, auth_vars, engine_vars >>

InitRestDays ==
    /\ NoStore
    /\ NoAuth
    /\ NoEngine
    /\ pc = "building"
    /\ result = << >>
    /\ \E present \in SUBSET RestDates, responsible \in Responsibilities :
       \E blocks1 \in BlockChoices, blocks2 \in BlockChoices :
       \E type2 \in {"ulr_pre_duty", "normal"}, post \in BlockChoices :
           args = [op |-> "build_rest_days_sleep",
                   responsible |-> responsible,
                   sleep_strategies |->
                       RestItems(1, present)
                       \o << Item("", "D1", "ulr_pre_duty", blocks1),
                             Item("", "D2", type2, blocks2),
                             Item("post_duty_", "D1", "post_duty", post) >>]

(* _build_rest_days_sleep *)
BuildRestDaysSleep ==
    /\ pc = "building"
    /\ result' = build_rest_days_sleep(args.sleep_strategies)
    /\ pc' = "done"
    /\ UNCHANGED args
    /\ BuildFrame

NextRestDays == BuildRestDaysSleep

SpecRestDays == InitRestDays /\ [][NextRestDays]_vars

-----------------------------------------------------------------------------
(* Claims about the rest-day sleep.                                        *)

Built == pc = "done" /\ args.op = "build_rest_days_sleep"

(* how often the entry of an item is in the output *)
Appearances(item) ==
    Cardinality({i \in 1..Len(result) : result[i].explanation = item.data.explanation})

ItemsOf(prefix) ==
    {args.sleep_strategies[i] :
        i \in {j \in 1..Len(args.sleep_strategies) :
                  args.sleep_strategies[j].key.prefix = prefix}}

(* the ULR pre-duty strategy of a duty has a block that starts or ends on  *)
(* the date                                                                *)
UlrCovers(duty, date) ==
    \E item \in ItemsOf("") :
        /\ item.key.name = duty
        /\ item.data.strategy_type = "ulr_pre_duty"
        /\ \E i \in 1..Len(item.data.sleep_blocks) :
               \/ /\ item.data.sleep_blocks[i].sleep_start_iso # << >>
                  /\ item.data.sleep_blocks[i].sleep_start_iso[1] = date
               \/ /\ item.data.sleep_blocks[i].sleep_end_iso # << >>
                  /\ item.data.sleep_blocks[i].sleep_end_iso[1] = date

DatedFirstBlock(item) ==
    item.data.sleep_blocks # << >> /\ item.data.sleep_blocks[1].sleep_start_iso # << >>

(* the entries other than gap-fill entries appear once *)
OthersOnce ==
    /\ \A item \in ItemsOf("post_duty_") : DatedFirstBlock(item) => Appearances(item) = 1
    /\ \A item \in ItemsOf("") :
           item.data.strategy_type = "ulr_pre_duty" /\ DatedFirstBlock(item)
               => Appearances(item) = 1

(* C25: a gap-fill entry rest_DATE is suppressed only when the ULR         *)
(* pre-duty strategy of the duty responsible for the same gap has a block  *)
(* starting or ending on that date, a strategy of another duty never       *)
(* suppresses it, and every entry not suppressed (rest_, post_duty_ with a *)
(* dated first block, ULR pre-duty) appears exactly once in the output.    *)
C25_SuppressedBySameGapOnly ==
    Built =>
        /\ \A item \in ItemsOf("rest_") :
               Appearances(item)
                   = IF UlrCovers(args.responsible[item.key.name], item.key.name)
                     THEN 0 ELSE 1
        /\ OthersOnce

(* what the code secures: a gap-fill entry is suppressed when the strategy *)
(* of any duty covers its date                                             *)
SuppressedByAnyDuty ==
    Built =>
        /\ \A item \in ItemsOf("rest_") :
               Appearances(item)
                   = IF \E duty \in UlrDuties : UlrCovers(duty, item.key.name)
                     THEN 0 ELSE 1
        /\ OthersOnce

SuppressedReached ==
    /\ Built
    /\ \E item \in ItemsOf("rest_") : Appearances(item) = 0
    /\ \E item \in ItemsOf("rest_") : Appearances(item) = 1

-----------------------------------------------------------------------------
(***************************************************************************)
(* Refresh requests processed concurrently: auth/routes.py, refresh_tokens. *)
(*                                                                         *)
(* Each request has a database session of its own (db/session.py, get_db)  *)
(* and runs from one await to the next: the select of the token row, the   *)
(* delete of the row flushed before the select of the user, and the insert *)
(* of the new row with the commit.  What a session has deleted or inserted *)
(* is in the table for the other sessions when it has committed; a delete  *)
(* of a row that another session has deleted and not yet committed waits   *)
(* for that session, and a delete that then finds the row gone deletes     *)
(* nothing.  A row has the request that inserted it as its id, the row of  *)
(* the set-up the id 0.                                                    *)
(***************************************************************************)

MaxInflight == 2

(* the token of the set-up, handed out at instant 0 *)
RaceToken == create_refresh_token("a@x", 0)

(* the table with the id given to the row last inserted *)
row_with_id(rows, id) ==
    [i \in 1..Len(rows) |->
        IF i = Len(rows)
        THEN [id |-> id, user_id |-> rows[i].user_id, token_hash |-> rows[i].token_hash,
              expires_at |-> rows[i].expires_at]
        ELSE rows[i]]

positions_of(rows, id) == {i \in 1..Len(rows) : rows[i].id = id}

(* the requests that have not been answered yet *)
Unanswered == {q \in 1..Len(inflight) : inflight[q].response = << >>}

Answer(r, response) == inflight' = [inflight EXCEPT ![r].response = response, ![r].at = "done"]

RaceFrame == UNCHANGED << args, result, pc, users, logged_out, now, db_available, analysis_store, db_rosters, db_analyses, aggregate_metrics, engine_vars >>

InitRace ==
    /\ now = Instant(1)
    /\ db_available \in BOOLEAN
    /\ users = [e \in Emails |-> [is_active |-> e = "a@x"]]
    /\ refresh_tokens = row_with_id(store_refresh_token(<< >>, "a@x", RaceToken, 0), 0)
    /\ issued = {create_access_token("a@x", 0), RaceToken}
    /\ rotated = {}
    /\ logged_out = {}
    /\ inflight = << >>
    /\ args = << >>
    /\ result = << >>
    /\ pc = 0
    /\ analysis_store = {}
    /\ db_rosters = {}
    /\ db_analyses = {}
    /\ aggregate_metrics = {}
    /\ NoEngine

(* a request arrives and runs to the select of the token row, lines        *)
(* 198-218                                                                 *)
RefreshSelectToken ==
    /\ Len(inflight) < MaxInflight
    /\ \E token \in Presentable :
        LET payload == refresh_payload(token, now)
            stored == rows_with_hash(refresh_tokens, hash_token(token))
            request == [token |-> token, at |-> "done", stored_token |-> << >>,
                        user_id |-> "", response |-> << >>, overlaps |-> Unanswered]
        IN  inflight' = Append(inflight,
                IF ~db_available
                THEN [request EXCEPT !.response = HTTPException(503, "Database not available")]
                ELSE IF payload = << >>
                THEN [request EXCEPT !.response =
                          HTTPException(401, "Invalid or expired refresh token")]
                ELSE IF stored = {}
                THEN [request EXCEPT !.response =
                          HTTPException(401, "Refresh token has been revoked")]
                ELSE IF Cardinality(stored) > 1
                THEN [request EXCEPT !.response = HTTPException(500, "Internal Server Error")]
                ELSE [request EXCEPT !.at = "selected",
                                     !.user_id = payload[1].sub,
                                     !.stored_token =
                                         << refresh_tokens[CHOOSE i \in stored : TRUE].id >>])
    /\ UNCHANGED << refresh_tokens, issued, rotated >>
    /\ RaceFrame

(* the delete of the row, flushed by the select of the user, lines 221-227: *)
(* it waits while another session has deleted the row and not committed     *)
RefreshSelectUser ==
    /\ \E r \in 1..Len(inflight) :
        /\ inflight[r].at = "selected"
        /\ \A q \in 1..Len(inflight) :
               inflight[q].at = "deleted" => inflight[q].stored_token # inflight[r].stored_token
        /\ IF inflight[r].user_id \notin DOMAIN users \/ ~users[inflight[r].user_id].is_active
           THEN Answer(r, HTTPException(401, "User not found or disabled"))
           ELSE inflight' = [inflight EXCEPT ![r].at = "deleted"]
    /\ UNCHANGED << refresh_tokens, issued, rotated >>
    /\ RaceFrame

(* the new tokens, the insert of the new row and the commit, lines 230-234 *)
RefreshCommit ==
    /\ \E r \in 1..Len(inflight) :
        /\ inflight[r].at = "deleted"
        /\ refresh_tokens' =
               row_with_id(store_refresh_token(
                               delete_rows(refresh_tokens,
                                           positions_of(refresh_tokens,
                                                        inflight[r].stored_token[1])),
                               inflight[r].user_id,
                               create_refresh_token(inflight[r].user_id, now), now),
                           r)
        /\ Answer(r, TokenResponse(200, create_access_token(inflight[r].user_id, now),
                                   create_refresh_token(inflight[r].user_id, now)))
        /\ issued' = issued \cup {create_access_token(inflight[r].user_id, now),
                                  create_refresh_token(inflight[r].user_id, now)}
        /\ rotated' = rotated \cup {inflight[r].token}
    /\ RaceFrame

(* the clock goes on while requests are in flight *)
RaceTick ==
    /\ \E t \in Instants :
        /\ t > now
        /\ \A u \in Instants : u > now => t <= u
        /\ now' = t
    /\ UNCHANGED << args, result, pc, users, refresh_tokens, issued, rotated, logged_out, inflight >>
    /\ UNCHANGED << db_available, analysis_store, db_rosters, db_analyses, aggregate_metrics, engine_vars >>

NextRace == RefreshSelectToken \/ RefreshSelectUser \/ RefreshCommit \/ RaceTick

SpecRace == InitRace /\ [][NextRace]_vars

-----------------------------------------------------------------------------
(* Claims about concurrent refresh requests.                               *)

(* the requests that presented the token and were answered 200 *)
SucceededWith(token) ==
    {r \in 1..Len(inflight) :
        /\ inflight[r].token = token
        /\ inflight[r].response # << >>
        /\ inflight[r].response.status = 200}

(* the rows stored by requests that presented the token *)
StoredFor(token) ==
    {i \in 1..Len(refresh_tokens) :
        /\ refresh_tokens[i].id \in 1..Len(inflight)
        /\ inflight[refresh_tokens[i].id].token = token}

(* C27: of the refresh requests that present the same valid refresh token  *)
(* and are processed concurrently at most one succeeds, and at most one    *)
(* new refresh token derived from it is ever stored.                       *)
C27_OneRefreshWins ==
    /\ Cardinality(SucceededWith(RaceToken)) <= 1
    /\ Cardinality(StoredFor(RaceToken)) <= 1

(* the same of the requests that do not overlap: those that arrived when   *)
(* every other request had been answered                                   *)
OneAfterAnotherWins ==
    (\A r \in 1..Len(inflight) : inflight[r].overlaps = {})
        => C27_OneRefreshWins

OneAfterAnotherReached ==
    /\ \A r \in 1..Len(inflight) : inflight[r].overlaps = {}
    /\ Cardinality(SucceededWith(RaceToken)) = 1
    /\ \E r \in 1..Len(inflight) :
           /\ inflight[r].token = RaceToken
           /\ inflight[r].response # << >>
           /\ inflight[r].response.status = 401

====
